---- MODULE Spec2Model ----
(***************************************************************************)
(* hit_modules: the request-scoped authentication and configuration        *)
(* resolution pipeline (middleware.py, auth.py, client.py, errors.py).     *)
(*                                                                         *)
(* Python values are represented as follows.                               *)
(*   - a token (str) is the sequence of its "."-separated segments, so     *)
(*     token.split(".") is the token itself; the empty string is <<"">>    *)
(*     and Python None, where a token is optional, is <<>>; the second of  *)
(*     three segments is given by its characters (see Chars);              *)
(*   - an optional str is a string, None being the string NoneStr;         *)
(*   - a dict is a function from its keys;                                 *)
(*   - a JSON value is a record [t, truthy, d]: its type, its Python       *)
(*     truthiness and, for an object, its mapping;                         *)
(*   - a URL path is the sequence of its "/" separators and segments.      *)
(*                                                                         *)
(* The remote provisioner is the environment: every call it is sent is     *)
(* answered by an HTTP response (or a transport failure) chosen freely.    *)
(* The module's own outbound tokens (HIT_MODULE_ID_TOKEN,                  *)
(* HIT_PROJECT_TOKEN) are unset, as for a shared module.                   *)
(***************************************************************************)
EXTENDS Integers, Sequences, FiniteSets, TLC

VARIABLES
    environ,        \* os.environ: PROVISIONER_URL, HIT_MODULE_NAME
    config_cache,   \* middleware._config_cache
    client_cache,   \* auth._client lru_cache: TRUE once a client is memoized
    inflight,       \* the request received and not yet handled, or NoRequest
    last,           \* observation of the last operation handled
    origin,         \* history: for each cache entry, the resolution that stored it
    manager,        \* a DatabaseConnectionManager: its client and its imports
    engines,        \* its registry self._engines
    threads,        \* the get_engine/dispose calls in progress on it, per thread
    ledger,         \* history: engines created, disposed and returned by it
    declared,       \* the `databases:` section of hit.yaml the services are declared in
    provisioner,    \* the provisioner service: its settings and the secrets it loaded
    pool,           \* the get_module_config calls in progress in the thread pool
    preclear,       \* history: cache entries stored by a fetch begun before a clear
    startup,        \* module_config: _module_config_loaded and _module_config_cache
    auto_events     \* auto_events: _pending_events, the publish tasks and the sessions

corevars == <<environ, config_cache, client_cache, inflight, origin>>
dbvars == <<manager, engines, threads, ledger, declared>>
othervars == <<provisioner, pool, preclear, startup, auto_events>>
vars == <<environ, config_cache, client_cache, inflight, last, origin,
          manager, engines, threads, ledger, declared, provisioner, pool, preclear,
          startup, auto_events>>

-----------------------------------------------------------------------------
(* Python values *)

NoneStr == "<None>"
NoToken == <<>>
EmptyDict == [k \in {} |-> ""]

DictGet(d, k, default) == IF k \in DOMAIN d THEN d[k] ELSE default

\* d.copy() followed by d[k] = v
DictSet(d, k, v) == [x \in DOMAIN d \cup {k} |-> IF x = k THEN v ELSE d[x]]

StrTruthy(s) == s # NoneStr /\ s # ""

TokenTruthy(tok) == tok # NoToken /\ tok # <<"">>

-----------------------------------------------------------------------------
(* errors.py: the exception hierarchy *)

ProvisionerErrorClasses ==
    {"ProvisionerError", "ProvisionerAuthError", "ProvisionerRequestError",
     "SecretNotFoundError", "ProvisionerConfigError"}

IsProvisionerError(cls) == cls \in ProvisionerErrorClasses

\* ProvisionerError derives from RuntimeError
IsRuntimeError(cls) == cls = "RuntimeError" \/ IsProvisionerError(cls)

-----------------------------------------------------------------------------
(* Outcomes of a handler: a returned value or a raised exception *)

\* `cause` is the class of the exception a raise is chained from (raise .. from exc)
Return(v) ==
    [kind |-> "return", exc |-> "", status |-> 0, detail |-> "", cause |-> "",
     value |-> v]

Raise(cls, msg, from) ==
    [kind |-> "raise", exc |-> cls, status |-> 0, detail |-> msg, cause |-> from,
     value |-> EmptyDict]

HTTPException(code, msg, from) ==
    [kind |-> "raise", exc |-> "HTTPException", status |-> code, detail |-> msg,
     cause |-> from, value |-> EmptyDict]

Returned(out) == out.kind = "return"

-----------------------------------------------------------------------------
(* Tokens and their payloads *)

JsonObj(d) == [t |-> "obj", truthy |-> (DOMAIN d # {}), d |-> d]
JsonArr(nonempty) == [t |-> "arr", truthy |-> nonempty, d |-> EmptyDict]
NotJson == [t |-> "error", truthy |-> FALSE, d |-> EmptyDict]

JsonStr == [t |-> "str", truthy |-> TRUE, d |-> EmptyDict]
JsonNum == [t |-> "num", truthy |-> TRUE, d |-> EmptyDict]
JsonTrue == [t |-> "bool", truthy |-> TRUE, d |-> EmptyDict]
JsonNull == [t |-> "null", truthy |-> FALSE, d |-> EmptyDict]

\* A byte string is [len, json]: its length and the value json.loads gives
\* for it, NotJson when json.loads raises.
Text(len, json) == [len |-> len, json |-> json]

NoText == Text(0, NotJson)
TextAcmeBilling == Text(30, JsonObj([prj |-> "acme", svc |-> "billing"]))
TextAcmeWeb     == Text(26, JsonObj([prj |-> "acme", svc |-> "web"]))
TextAcmeTasks   == Text(28, JsonObj([prj |-> "acme", svc |-> "tasks"]))
TextPrjOnly     == Text(14, JsonObj([prj |-> "acme"]))
TextEmptySvc    == Text(23, JsonObj([prj |-> "acme", svc |-> ""]))
TextEmptyObj    == Text(2, JsonObj(EmptyDict))
TextArray       == Text(5, JsonArr(TRUE))
TextDefault     == Text(33, JsonObj([prj |-> "default", svc |-> "default"]))
TextColonPrj    == Text(23, JsonObj([prj |-> "a:b", svc |-> "c"]))
TextColonSvc    == Text(23, JsonObj([prj |-> "a", svc |-> "b:c"]))
TextString      == Text(3, JsonStr)
TextNumber      == Text(1, JsonNum)
TextTrue        == Text(4, JsonTrue)
TextNull        == Text(4, JsonNull)
TextHello       == Text(5, NotJson)

\* The payload segment of a token is [text, data, pads, stray]: its characters
\* of the base64 alphabet (their number, and the bytes they encode when they
\* are all there), the "=" that follow them and its characters outside the
\* alphabet.
Chars(text, data, pads, stray) ==
    [text |-> text, data |-> data, pads |-> pads, stray |-> stray]

\* the number of alphabet characters base64 encodes n bytes with
B64Len(n) == 4 * (n \div 3) + (IF n % 3 = 0 THEN 0 ELSE (n % 3) + 1)

\* base64.urlsafe_b64encode, and the same with its "=" stripped
urlsafe_b64encode(text) == Chars(text, B64Len(text.len), (3 - (text.len % 3)) % 3, 0)
Unpadded(text) == Chars(text, B64Len(text.len), 0, 0)

\* faulty variant of AddPadding: the segment is decoded as it came
AddPadding_None(chars) == chars

\* padding = 4 - len(payload_b64) % 4; if padding != 4: payload_b64 += "=" * padding
AddPadding(chars) ==
    IF (chars.data + chars.pads + chars.stray) % 4 # 0
    THEN [chars EXCEPT !.pads = @ + 4 - ((chars.data + chars.pads + chars.stray) % 4)]
    ELSE chars

\* base64.urlsafe_b64decode raises binascii.Error: characters outside the
\* alphabet are discarded, and the "=" do not complete the last group of four
B64Error(chars) ==
    \/ chars.data % 4 = 1
    \/ chars.data % 4 = 2 /\ chars.pads < 2
    \/ chars.data % 4 = 3 /\ chars.pads < 1

\* the bytes base64.urlsafe_b64decode returns
urlsafe_b64decode(chars) ==
    IF chars.data = B64Len(chars.text.len) THEN chars.text
    ELSE Text((3 * chars.data) \div 4, NotJson)

\* json.loads: the value, NotJson when it raises
json_loads(bytes) == bytes.json

\* base64.urlsafe_b64decode followed by json.loads on the padded segment;
\* NotJson when either raises
PayloadJson(padded) ==
    IF B64Error(padded) THEN NotJson ELSE json_loads(urlsafe_b64decode(padded))

\* _decode_token_claims: the payload, or None (NotJson) when the token has
\* not three segments, when decoding raises and when the payload is null
decode_token_claims(token) ==
    IF Len(token) # 3 THEN NotJson
    ELSE CHOOSE claims \in
             {IF payload.t = "null" THEN NotJson ELSE payload :
                 payload \in {PayloadJson(padded) : padded \in {AddPadding(token[2])}}} :
             TRUE

\* a token with this payload, unpadded
Jwt(text, sig) == <<"h", Unpadded(text), sig>>

TokenA       == Jwt(TextAcmeBilling, "sig")
TokenAForged == Jwt(TextAcmeBilling, "forged")
TokenB       == Jwt(TextAcmeWeb, "sig")
TokenPrjOnly == Jwt(TextPrjOnly, "sig")
TokenEmptySvc == Jwt(TextEmptySvc, "sig")
TokenEmptyObj == Jwt(TextEmptyObj, "sig")
TokenArray   == Jwt(TextArray, "sig")
TokenGarbage == <<"h", Chars(NoText, 0, 0, 3), "sig">>
TokenTwoSeg  == <<"h", Unpadded(TextAcmeBilling)>>
TokenDefault == Jwt(TextDefault, "sig")
TokenColonPrj == Jwt(TextColonPrj, "sig")
TokenColonSvc == Jwt(TextColonSvc, "sig")

-----------------------------------------------------------------------------
(* Requests *)

NoAuthorization == [present |-> FALSE, scheme |-> "", param |-> <<"">>]
Authorization(scheme, param) == [present |-> TRUE, scheme |-> scheme, param |-> param]

\* auth_header.startswith("Bearer "): the header is scheme + " " + param
StartsWithBearer(auth) == auth.present /\ auth.scheme = "Bearer"

\* _extract_bearer_token
extract_bearer_token(request) ==
    IF TokenTruthy(request.xhit) THEN request.xhit
    ELSE IF StartsWithBearer(request.auth) THEN request.auth.param
    ELSE NoToken

\* claims.get("prj") / claims.get("svc") on a decoded mapping
ClaimGet(claims, k) == DictGet(claims.d, k, NoneStr)

HasPrjSvc(claims) ==
    claims.t = "obj" /\ StrTruthy(ClaimGet(claims, "prj")) /\ StrTruthy(ClaimGet(claims, "svc"))

\* get_service_token: [out, state], state being request.state's stored token
get_service_token(request, state) ==
    IF state # NoToken THEN [out |-> Return(state), state |-> state]
    ELSE LET token == extract_bearer_token(request)
             claims == decode_token_claims(token)
         IN  IF ~TokenTruthy(token)
             THEN [out |-> Raise("RuntimeError", "Service token required", ""),
                   state |-> state]
             ELSE IF ~claims.truthy
             THEN [out |-> Raise("RuntimeError", "Invalid service token format", ""),
                   state |-> state]
             ELSE IF claims.t # "obj"
             THEN [out |-> Raise("AttributeError", "object has no attribute get", ""),
                   state |-> state]
             ELSE IF ~(StrTruthy(ClaimGet(claims, "prj")) /\ StrTruthy(ClaimGet(claims, "svc")))
             THEN [out |-> Raise("RuntimeError", "Invalid service token", ""),
                   state |-> state]
             ELSE [out |-> Return(token), state |-> token]

-----------------------------------------------------------------------------
(* client.py: ProvisionerClient *)

HttpExc == [exc |-> TRUE, status |-> 0, content |-> "empty", body |-> EmptyDict]
HttpResp(status, content, body) ==
    [exc |-> FALSE, status |-> status, content |-> content, body |-> body]

\* the result of _request: a raised error class, or the value of
\* response.json(), whose JSON type t is an object ("obj", with its mapping in
\* value), null or a non-empty array
Ok(v) == [err |-> "", status_code |-> 0, value |-> v, t |-> "obj"]
OkNull == [err |-> "", status_code |-> 0, value |-> EmptyDict, t |-> "null"]
OkArray == [err |-> "", status_code |-> 0, value |-> EmptyDict, t |-> "arr"]
Err(cls, code) == [err |-> cls, status_code |-> code, value |-> EmptyDict, t |-> "obj"]

\* faulty variant of client_request: a body that does not parse counts as {}
client_request_NoParseCheck(resp, expected_status) ==
    IF resp.exc THEN Err("ProvisionerRequestError", 0)
    ELSE IF resp.status = expected_status
    THEN IF resp.content \in {"empty", "badjson"} THEN Ok(EmptyDict)
         ELSE IF resp.content = "null" THEN OkNull
         ELSE IF resp.content = "array" THEN OkArray
         ELSE Ok(resp.body)
    ELSE IF resp.status = 401 THEN Err("ProvisionerAuthError", 401)
    ELSE IF resp.status = 404 THEN Err("SecretNotFoundError", 404)
    ELSE Err("ProvisionerRequestError", resp.status)

\* faulty variant of client_request: a 401 is reported as a request error
client_request_NoAuthError(resp, expected_status) ==
    IF resp.exc THEN Err("ProvisionerRequestError", 0)
    ELSE IF resp.status = expected_status
    THEN IF resp.content = "empty" THEN Ok(EmptyDict)
         ELSE IF resp.content = "badjson" THEN Err("ProvisionerRequestError", 0)
         ELSE IF resp.content = "null" THEN OkNull
         ELSE IF resp.content = "array" THEN OkArray
         ELSE Ok(resp.body)
    ELSE IF resp.status = 404 THEN Err("SecretNotFoundError", 404)
    ELSE Err("ProvisionerRequestError", resp.status)

\* ProvisionerClient._request: the result of one HTTP attempt answered by resp
client_request(resp, expected_status) ==
    IF resp.exc THEN Err("ProvisionerRequestError", 0)
    ELSE IF resp.status = expected_status
    THEN IF resp.content = "empty" THEN Ok(EmptyDict)
         ELSE IF resp.content = "badjson" THEN Err("ProvisionerRequestError", 0)
         ELSE IF resp.content = "null" THEN OkNull
         ELSE IF resp.content = "array" THEN OkArray
         ELSE Ok(resp.body)
    ELSE IF resp.status = 401 THEN Err("ProvisionerAuthError", 401)
    ELSE IF resp.status = 404 THEN Err("SecretNotFoundError", 404)
    ELSE Err("ProvisionerRequestError", resp.status)

\* the JSON body of a call: token, moduleName and methodName, each absent
\* (NoToken, NoneStr) when the call does not send it
Payload(token, module_name, method_name) ==
    [token |-> token, moduleName |-> module_name, methodName |-> method_name]

\* one call made to the remote: the endpoint, the bearer token of its
\* Authorization header (ClientConfig.headers), its body and the answer it got
Call(endpoint, bearer, payload, resp) ==
    [endpoint |-> endpoint, bearer |-> bearer, payload |-> payload, resp |-> resp]

ValidateEndpoint == "/api/v1/tokens/validate"

-----------------------------------------------------------------------------
(* middleware.py: ConfigCache and ConfigResolver *)

\* os.environ.get("PROVISIONER_URL", "").strip() is empty
NoBaseUrl(env) == env.PROVISIONER_URL = NoneStr \/ env.PROVISIONER_URL = ""

\* _get_module_name: the name ("" when unset, which raises RuntimeError)
get_module_name(env) ==
    IF env.HIT_MODULE_NAME = NoneStr THEN "" ELSE env.HIT_MODULE_NAME

\* x or 'default'
OrDefault(x) == IF StrTruthy(x) THEN x ELSE "default"

\* cache_key = f"{module_name}:{project_slug or 'default'}:{service_name or 'default'}"
CacheKey(module_name, project_slug, service_name) ==
    module_name \o ":" \o OrDefault(project_slug) \o ":" \o OrDefault(service_name)

\* faulty variant of CacheHit: the cache is never consulted
CacheHit_NeverHits(cache, cache_key) == FALSE

\* if cache_key in _config_cache
CacheHit(cache, cache_key) == cache_key \in DOMAIN cache

\* faulty variant of Augment: the request's token is not attached
Augment_NoToken(config, project_slug, service_name, token) ==
    LET c2 == IF StrTruthy(project_slug) THEN DictSet(config, "_project_slug", project_slug)
              ELSE config
    IN  IF StrTruthy(service_name) THEN DictSet(c2, "_service_name", service_name)
        ELSE c2

\* config.copy() plus the per-request keys, each added only when truthy
Augment(config, project_slug, service_name, token) ==
    LET c1 == IF TokenTruthy(token) THEN DictSet(config, "_request_token", token)
              ELSE config
        c2 == IF StrTruthy(project_slug) THEN DictSet(c1, "_project_slug", project_slug)
              ELSE c1
    IN  IF StrTruthy(service_name) THEN DictSet(c2, "_service_name", service_name)
        ELSE c2

ConfigEndpoint == "/api/v1/config/module"

\* faulty variant of CacheStore: an entry already present is kept
CacheStore_FirstWins(cache, cache_key, config) ==
    IF cache_key \in DOMAIN cache THEN cache ELSE DictSet(cache, cache_key, config)

\* the write _config_cache[cache_key] = config
CacheStore(cache, cache_key, config) == DictSet(cache, cache_key, config)

\* _load_module_config: [out, cache, calls, key]; resp answers the
\* module-config call if one is made. key is the cache key once computed.
load_module_config(cache, env, module_name, project_slug, service_name, token, resp) ==
    IF TokenTruthy(token) /\ (~StrTruthy(project_slug) \/ ~StrTruthy(service_name))
    THEN [out |-> Raise("RuntimeError", "Invalid service token for module", ""),
          cache |-> cache, calls |-> <<>>, key |-> ""]
    ELSE LET cache_key == CacheKey(module_name, project_slug, service_name) IN
    IF CacheHit(cache, cache_key)
    THEN [out |-> Return(Augment(cache[cache_key], project_slug, service_name, token)),
          cache |-> cache, calls |-> <<>>, key |-> cache_key]
    ELSE IF NoBaseUrl(env)
    THEN [out |-> Raise("RuntimeError", "Provisioner misconfigured for module",
                        "ProvisionerConfigError"),
          cache |-> cache, calls |-> <<>>, key |-> cache_key]
    ELSE LET r == client_request(resp, 200)
             calls == <<Call(ConfigEndpoint, token,
                             Payload(NoToken, module_name, NoneStr), resp)>>
         IN  IF r.err # ""
             THEN [out |-> Raise("RuntimeError", "Failed to load config from provisioner",
                                 r.err),
                   cache |-> cache, calls |-> calls, key |-> cache_key]
             ELSE IF r.t # "obj"  \* config.get("settings") on None or a list
             THEN [out |-> Raise("AttributeError", "object has no attribute get", ""),
                   cache |-> cache, calls |-> calls, key |-> cache_key]
             ELSE [out |-> Return(Augment(r.value, project_slug, service_name, token)),
                   cache |-> CacheStore(cache, cache_key, r.value),
                   calls |-> calls, key |-> cache_key]

\* faulty variant of clear_config_cache: only one entry is removed
clear_config_cache_OneKey(cache) ==
    IF cache = EmptyDict THEN cache
    ELSE [k \in DOMAIN cache \ {CHOOSE x \in DOMAIN cache : TRUE} |-> cache[k]]

\* clear_config_cache: _config_cache.clear()
clear_config_cache(cache) == EmptyDict

NotAuthenticated ==
    HTTPException(403, "Not authenticated. Authentication required to access this resource.", "")

\* the fallback of get_module_config_from_request: the Authorization header's
\* token, used when it decodes to claims with both prj and svc
FallbackToAuthorization(request, cache, env, module_name, resp) ==
    LET user_token == request.auth.param
        user_claims == decode_token_claims(user_token)
        none == [out |-> NotAuthenticated, cache |-> cache, calls |-> <<>>, key |-> "",
                 token |-> NoToken]
    IN  IF ~StartsWithBearer(request.auth) THEN none
        ELSE IF ~user_claims.truthy THEN none
        ELSE IF user_claims.t # "obj"
        THEN [out |-> Raise("AttributeError", "object has no attribute get", ""),
              cache |-> cache, calls |-> <<>>, key |-> "", token |-> NoToken]
        ELSE IF ~HasPrjSvc(user_claims) THEN none
        ELSE [token |-> user_token] @@
             load_module_config(cache, env, module_name, ClaimGet(user_claims, "prj"),
                                ClaimGet(user_claims, "svc"), user_token, resp)

\* get_module_config_from_request: [out, cache, calls, key, token]; resp1 and
\* resp2 answer the first and the second module-config call, if made. token is
\* the token the returned configuration was loaded with.
get_module_config_from_request(request, cache, env, resp1, resp2) ==
    LET module_name == get_module_name(env) IN
    IF module_name = ""
    THEN [out |-> Raise("RuntimeError", "HIT_MODULE_NAME environment variable is required", ""),
          cache |-> cache, calls |-> <<>>, key |-> "", token |-> NoToken]
    ELSE LET st == get_service_token(request, NoToken) IN
    IF ~Returned(st.out)
    THEN IF IsRuntimeError(st.out.exc)
         THEN FallbackToAuthorization(request, cache, env, module_name, resp1)
         ELSE [out |-> st.out, cache |-> cache, calls |-> <<>>, key |-> "",
               token |-> NoToken]
    ELSE LET token == st.out.value
             claims == decode_token_claims(token)
             first == load_module_config(cache, env, module_name, ClaimGet(claims, "prj"),
                                         ClaimGet(claims, "svc"), token, resp1)
         IN  IF Returned(first.out) \/ ~IsRuntimeError(first.out.exc)
             THEN [token |-> token] @@ first
             ELSE \* except RuntimeError: logged, then the fallback is tried
                  LET second == FallbackToAuthorization(request, first.cache, env,
                                                        module_name, resp2)
                  IN  [second EXCEPT !.calls = first.calls \o second.calls]

\* get_module_config: the synchronous loader of startup code, which has no
\* request and so no token, project or service
get_module_config(cache, env, resp) ==
    LET module_name == get_module_name(env) IN
    IF module_name = ""
    THEN [out |-> Raise("RuntimeError", "HIT_MODULE_NAME environment variable is required", ""),
          cache |-> cache, calls |-> <<>>, key |-> "", token |-> NoToken]
    ELSE [token |-> NoToken] @@
         load_module_config(cache, env, module_name, NoneStr, NoneStr, NoToken, resp)

-----------------------------------------------------------------------------
(* auth.py: AuthGate *)

\* scheme.lower()
Lower(scheme) == IF scheme \in {"Bearer", "BEARER", "bearer"} THEN "bearer" ELSE scheme

\* _bearer = HTTPBearer(auto_error=False): the credentials of the
\* Authorization header, or None
HTTPBearer(request) ==
    LET auth == request.auth IN
    IF ~(auth.present /\ auth.scheme # "" /\ TokenTruthy(auth.param)) THEN NoToken
    ELSE IF Lower(auth.scheme) # "bearer" THEN NoToken
    ELSE auth.param

\* path.rstrip("/")
RECURSIVE RStripSlash(_)
RStripSlash(path) ==
    IF path # <<>> /\ path[Len(path)] = "/" THEN RStripSlash(SubSeq(path, 1, Len(path) - 1))
    ELSE path

\* path.split("/")[-1]
LastSegment(path) ==
    IF path = <<>> \/ path[Len(path)] = "/" THEN "" ELSE path[Len(path)]

\* faulty variant of MethName: the path is split as it came
MethName_NoStrip(method_name, request) ==
    IF StrTruthy(method_name) THEN method_name ELSE LastSegment(request.path)

\* meth_name: the argument, else the last segment of the request path
MethName(method_name, request) ==
    IF StrTruthy(method_name) THEN method_name
    ELSE LastSegment(RStripSlash(request.path))

\* mod_name = module_name or _module_name (HIT_MODULE_NAME at import)
ModName(module_name, env) ==
    IF StrTruthy(module_name) THEN module_name ELSE env.HIT_MODULE_NAME

GateResult(out, cached, calls, token) ==
    [out |-> out, client_cache |-> cached, calls |-> calls, key |-> "", token |-> token]

\* except ProvisionerConfigError / except ProvisionerError of the gates,
\* for the error class err raised inside the try block
GateExcept(err, invalid_detail) ==
    IF err = "ProvisionerConfigError"
    THEN HTTPException(503, "PROVISIONER_URL is required", err)
    ELSE HTTPException(401, invalid_detail, err)

\* require_provisioned_token
require_provisioned_token(request, env, cached, resp) ==
    LET token == HTTPBearer(request) IN
    IF token = NoToken
    THEN GateResult(HTTPException(401, "Missing Authorization header", ""), cached, <<>>, NoToken)
    ELSE IF ~TokenTruthy(token)
    THEN GateResult(HTTPException(401, "Missing bearer token", ""), cached, <<>>, NoToken)
    ELSE IF ~cached /\ NoBaseUrl(env)
    THEN GateResult(GateExcept("ProvisionerConfigError", "Invalid project token"),
                    cached, <<>>, token)
    ELSE LET r == client_request(resp, 200)
             calls == <<Call(ValidateEndpoint, NoToken, Payload(token, NoneStr, NoneStr), resp)>>
             claims == DictGet(r.value, "claims", EmptyDict)
         IN  IF r.err # ""
             THEN GateResult(GateExcept(r.err, "Invalid project token"), TRUE, calls, token)
             ELSE IF r.t = "null"  \* if result is None
             THEN GateResult(HTTPException(503, "Provisioner returned invalid response", ""),
                             TRUE, calls, token)
             ELSE IF r.t # "obj"  \* result.get on a list
             THEN GateResult(Raise("AttributeError", "object has no attribute get", ""),
                             TRUE, calls, token)
             ELSE IF claims = EmptyDict
             THEN GateResult(HTTPException(401, "Invalid project token", ""), TRUE, calls, token)
             ELSE GateResult(Return(claims), TRUE, calls, token)

\* result.get("module_allowed", True) / result.get("method_allowed", True)
Allowed(result, k) == DictGet(result, k, TRUE)

ModuleDenied(mod_name) == "Access to module denied: " \o mod_name
MethodDenied(mod_name, meth_name) ==
    "Access to method denied: " \o meth_name \o " on " \o mod_name

\* faulty variant of AclDecision: module access is checked before validity
AclDecision_ModuleFirst(result, mod_name, meth_name) ==
    IF ~Allowed(result, "module_allowed")
    THEN HTTPException(403, DictGet(result, "reason", ModuleDenied(mod_name)), "")
    ELSE IF "valid" \notin DOMAIN result
    THEN HTTPException(503, "Provisioner returned invalid response format", "")
    ELSE IF ~result["valid"]
    THEN HTTPException(401, "Invalid token", "")
    ELSE IF StrTruthy(meth_name) /\ ~Allowed(result, "method_allowed")
    THEN HTTPException(403, DictGet(result, "reason", MethodDenied(mod_name, meth_name)), "")
    ELSE Return(DictGet(result, "claims", EmptyDict))

\* faulty variant of AclDecision: a module denial answers with the default
\* message instead of the reason
AclDecision_DefaultDetail(result, mod_name, meth_name) ==
    IF "valid" \notin DOMAIN result
    THEN HTTPException(503, "Provisioner returned invalid response format", "")
    ELSE IF ~result["valid"]
    THEN HTTPException(401, "Invalid token", "")
    ELSE IF ~Allowed(result, "module_allowed")
    THEN HTTPException(403, ModuleDenied(mod_name), "")
    ELSE IF StrTruthy(meth_name) /\ ~Allowed(result, "method_allowed")
    THEN HTTPException(403, DictGet(result, "reason", MethodDenied(mod_name, meth_name)), "")
    ELSE Return(DictGet(result, "claims", EmptyDict))

\* the checks of require_method_acl.dependency on a verification result
AclDecision(result, mod_name, meth_name) ==
    IF "valid" \notin DOMAIN result
    THEN HTTPException(503, "Provisioner returned invalid response format", "")
    ELSE IF ~result["valid"]
    THEN HTTPException(401, "Invalid token", "")
    ELSE IF ~Allowed(result, "module_allowed")
    THEN HTTPException(403, DictGet(result, "reason", ModuleDenied(mod_name)), "")
    ELSE IF StrTruthy(meth_name) /\ ~Allowed(result, "method_allowed")
    THEN HTTPException(403, DictGet(result, "reason", MethodDenied(mod_name, meth_name)), "")
    ELSE Return(DictGet(result, "claims", EmptyDict))

\* require_method_acl(module_name, method_name).dependency
require_method_acl(module_name, method_name, request, env, cached, resp) ==
    LET mod_name == ModName(module_name, env)
        meth_name == MethName(method_name, request)
        token == HTTPBearer(request)
    IN
    IF ~StrTruthy(mod_name)
    THEN GateResult(HTTPException(500, "Module name not configured", ""), cached, <<>>, NoToken)
    ELSE IF token = NoToken
    THEN GateResult(HTTPException(401, "Missing Authorization header", ""), cached, <<>>, NoToken)
    ELSE IF ~TokenTruthy(token)
    THEN GateResult(HTTPException(401, "Missing bearer token", ""), cached, <<>>, NoToken)
    ELSE IF ~cached /\ NoBaseUrl(env)
    THEN GateResult(GateExcept("ProvisionerConfigError", "Invalid token"), cached, <<>>, token)
    ELSE LET r == client_request(resp, 200)
             calls == <<Call(ValidateEndpoint, NoToken,
                             Payload(token, mod_name,
                                     IF StrTruthy(meth_name) THEN meth_name ELSE NoneStr),
                             resp)>>
         IN  IF r.err # ""
             THEN GateResult(GateExcept(r.err, "Invalid token"), TRUE, calls, token)
             ELSE IF r.t = "null"  \* if result is None
             THEN GateResult(HTTPException(503, "Provisioner returned invalid response", ""),
                             TRUE, calls, token)
             ELSE IF r.t # "obj"  \* result.get on a list
             THEN GateResult(Raise("AttributeError", "object has no attribute get", ""),
                             TRUE, calls, token)
             ELSE GateResult(AclDecision(r.value, mod_name, meth_name), TRUE, calls, token)

-----------------------------------------------------------------------------
(* fastapi.py: the /hit/config route *)

\* authenticated_as of hit_config, from the verified claims
AuthenticatedAs(claims) ==
    LET project == DictGet(claims, "prj", NoneStr)
        service == DictGet(claims, "svc", NoneStr)
    IN  IF StrTruthy(project) /\ StrTruthy(service) THEN project \o "/" \o service
        ELSE project

\* hit_config behind Depends(require_provisioned_token): the gate runs first,
\* then get_module_config_from_request on the same request
hit_config(request, cache, env, cached, vresp, resp1, resp2) ==
    LET gate == require_provisioned_token(request, env, cached, vresp) IN
    IF ~Returned(gate.out)
    THEN [out |-> gate.out, cache |-> cache, client_cache |-> gate.client_cache,
          calls |-> gate.calls, key |-> "", token |-> NoToken]
    ELSE LET res == get_module_config_from_request(request, cache, env, resp1, resp2)
             config == res.out.value
             body == [module |-> OrDefault(get_module_name(env)),
                      config_source |-> "provisioner",
                      settings |-> DictGet(config, "settings", ""),
                      has_secrets |-> DictGet(config, "secrets", "") # "",
                      authenticated_as |-> AuthenticatedAs(gate.out.value)]
         IN  [out |-> IF Returned(res.out) THEN Return(body) ELSE res.out,
              cache |-> res.cache, client_cache |-> gate.client_cache,
              calls |-> gate.calls \o res.calls, key |-> res.key, token |-> res.token]

\* hit_reload_config behind Depends(require_provisioned_token): the gate runs
\* first, then clear_config_cache, then get_module_config_from_request; any
\* exception of the reload is answered with 503
hit_reload_config(request, cache, env, cached, vresp, resp1, resp2) ==
    LET gate == require_provisioned_token(request, env, cached, vresp) IN
    IF ~Returned(gate.out)
    THEN [out |-> gate.out, cache |-> cache, client_cache |-> gate.client_cache,
          calls |-> gate.calls, key |-> "", token |-> NoToken]
    ELSE LET res == get_module_config_from_request(request, clear_config_cache(cache),
                                                   env, resp1, resp2)
             body == [status |-> "ok",
                      module |-> IF env.HIT_MODULE_NAME = NoneStr THEN "unknown"
                                 ELSE env.HIT_MODULE_NAME,
                      message |-> "Configuration reloaded",
                      settings |-> DictGet(res.out.value, "settings", "")]
         IN  [out |-> IF Returned(res.out) THEN Return(body)
                      ELSE HTTPException(503, "Failed to reload config", res.out.exc),
              cache |-> res.cache, client_cache |-> gate.client_cache,
              calls |-> gate.calls \o res.calls, key |-> res.key, token |-> res.token]

-----------------------------------------------------------------------------
(* database.py: DatabaseConnectionManager *)

\* A database URL "driver://rest" is the pair <<driver, rest>>; the empty
\* string is <<>>. An engine is [id, url]: its identity and the URL it was
\* created for. A base URL is the sequence of its text and trailing "/"s.

SecretEndpoint == "/api/v1/secrets/database"

\* ProvisionerClient._build_url: base_url.rstrip("/") is empty
BaseUrlMissing(mgr) == RStripSlash(mgr.base_url) = <<>>

\* the JSON body of get_database_secret
SecretPayload(args) ==
    [namespace |-> args.namespace, secretKey |-> args.secret_key, role |-> args.role]

DatabaseConnectionError(msg, from) == Raise("DatabaseConnectionError", msg, from)

\* secret.get("url") or secret.get("DATABASE_URL")
SecretUrl(secret) ==
    IF DictGet(secret, "url", <<>>) # <<>> THEN secret["url"]
    ELSE DictGet(secret, "DATABASE_URL", <<>>)

\* faulty variant of get_database_url: a failed lookup falls back to the
\* DATABASE_URL of the environment
get_database_url_EnvFallback(mgr, args, resp) ==
    LET r == client_request(resp, 200)
        calls == <<Call(SecretEndpoint, mgr.token, SecretPayload(args), resp)>>
    IN  IF BaseUrlMissing(mgr)
        THEN [out |-> Return(<<"postgresql", "env-db">>), calls |-> <<>>]
        ELSE IF r.err # "" \/ r.t # "obj" \/ SecretUrl(r.value) = <<>>
        THEN [out |-> Return(<<"postgresql", "env-db">>), calls |-> calls]
        ELSE [out |-> Return(SecretUrl(r.value)), calls |-> calls]

\* get_database_url: [out, calls]; resp answers the database-secret call
get_database_url(mgr, args, resp) ==
    LET r == client_request(resp, 200)
        calls == <<Call(SecretEndpoint, mgr.token, SecretPayload(args), resp)>>
    IN  IF BaseUrlMissing(mgr)
        THEN [out |-> DatabaseConnectionError("Provisioner configuration invalid",
                                              "ProvisionerConfigError"),
              calls |-> <<>>]
        ELSE IF r.err # ""
        THEN [out |-> DatabaseConnectionError("Provisioner lookup failed", r.err),
              calls |-> calls]
        ELSE IF r.t = "null" \/ (r.t = "obj" /\ r.value = EmptyDict)
        THEN [out |-> DatabaseConnectionError("Provisioner returned empty secret", ""),
              calls |-> calls]
        ELSE IF r.t # "obj"  \* secret.get on a list
        THEN [out |-> Raise("AttributeError", "object has no attribute get", ""),
              calls |-> calls]
        ELSE IF SecretUrl(r.value) = <<>>
        THEN [out |-> DatabaseConnectionError("Provisioner secret missing database URL", ""),
              calls |-> calls]
        ELSE [out |-> Return(SecretUrl(r.value)), calls |-> calls]

\* key = engine_key or f"{namespace}:{secret_key}:{role or 'default'}"
EngineKey(args) ==
    IF StrTruthy(args.engine_key) THEN args.engine_key
    ELSE args.namespace \o ":" \o args.secret_key \o ":" \o OrDefault(args.role)

\* the driver rewriting of get_engine: PostgreSQL URLs use psycopg (psycopg3)
\* when it can be imported, and never psycopg2
NormalizeDriver(url, psycopg) ==
    LET u1 == IF psycopg /\ url[1] \in {"postgresql", "postgres"}
              THEN <<"postgresql+psycopg", url[2]>> ELSE url
    IN  IF u1[1] = "postgresql+psycopg2" THEN <<"postgresql+psycopg", u1[2]>> ELSE u1

\* the drivers sqlalchemy.create_engine builds an engine for; for any other
\* URL it raises
KnownDrivers == {"postgresql", "postgresql+psycopg", "sqlite"}

\* faulty variant of get_engine_lookup: the registry is never consulted
get_engine_lookup_NoMemo(mgr, engs, args) ==
    IF ~mgr.sqlalchemy
    THEN [out |-> DatabaseConnectionError("SQLAlchemy is required", ""),
          key |-> EngineKey(args), hit |-> FALSE]
    ELSE [out |-> Return(EmptyDict), key |-> EngineKey(args), hit |-> FALSE]

\* the step of get_engine up to the registry lookup: [out, key, hit]
get_engine_lookup(mgr, engs, args) ==
    LET key == EngineKey(args) IN
    IF ~mgr.sqlalchemy
    THEN [out |-> DatabaseConnectionError("SQLAlchemy is required", ""), key |-> key,
          hit |-> FALSE]
    ELSE IF key \in DOMAIN engs
    THEN [out |-> Return(engs[key]), key |-> key, hit |-> TRUE]
    ELSE [out |-> Return(EmptyDict), key |-> key, hit |-> FALSE]

\* faulty variant of get_engine_create: the key is registered before the
\* engine is created
get_engine_create_StoreFirst(mgr, engs, key, db_url, id) ==
    LET url == NormalizeDriver(db_url, mgr.psycopg)
        engine == [id |-> id, url |-> url]
    IN  IF url[1] \notin KnownDrivers
        THEN [out |-> Raise("ArgumentError", "Could not parse SQLAlchemy URL", ""),
              engines |-> DictSet(engs, key, engine)]
        ELSE [out |-> Return(engine), engines |-> DictSet(engs, key, engine)]

\* the step of get_engine after get_database_url returned db_url: the engine
\* is created and stored under key; [out, engines]
get_engine_create(mgr, engs, key, db_url, id) ==
    LET url == NormalizeDriver(db_url, mgr.psycopg)
        engine == [id |-> id, url |-> url]
    IN  IF url[1] \notin KnownDrivers
        THEN [out |-> Raise("ArgumentError", "Could not parse SQLAlchemy URL", ""),
              engines |-> engs]
        ELSE [out |-> Return(engine), engines |-> DictSet(engs, key, engine)]

\* get_engine run without interruption: [out, calls, key, token, engines];
\* id is the identity a newly created engine gets
get_engine(mgr, engs, args, resp, id) ==
    LET look == get_engine_lookup(mgr, engs, args)
        url == get_database_url(mgr, args, resp)
        made == get_engine_create(mgr, engs, look.key, url.out.value, id)
    IN  IF ~Returned(look.out) \/ look.hit
        THEN [out |-> look.out, calls |-> <<>>, key |-> look.key, token |-> mgr.token,
              engines |-> engs]
        ELSE IF ~Returned(url.out)
        THEN [out |-> url.out, calls |-> url.calls, key |-> look.key, token |-> mgr.token,
              engines |-> engs]
        ELSE [out |-> made.out, calls |-> url.calls, key |-> look.key, token |-> mgr.token,
              engines |-> made.engines]

\* the identities of the engines of a registry
EngineIds(engs) == {engs[k].id : k \in DOMAIN engs}

\* faulty variant of dispose: the first disposal that fails ends the call
dispose_StopAtFailure(engs, failing) ==
    IF EngineIds(engs) \cap failing # {}
    THEN [out |-> Raise("OperationalError", "dispose failed", ""), engines |-> engs,
          called |-> EngineIds(engs) \cap failing]
    ELSE [out |-> Return(EmptyDict), engines |-> EmptyDict, called |-> EngineIds(engs)]

\* dispose: [out, engines, called]; failing are the engines whose dispose()
\* raises (caught and logged), called the engines dispose() was called on
dispose(engs, failing) ==
    [out |-> Return(EmptyDict), engines |-> EmptyDict, called |-> EngineIds(engs)]

\* role_cfg.get("env") or "DATABASE_URL"
RoleEnv(role_cfg) == IF StrTruthy(role_cfg.env) THEN role_cfg.env ELSE "DATABASE_URL"

\* the tests of the inner loop of get_service_database_url on one role
RoleSelected(role_cfg, service_name, env_key) ==
    /\ service_name \in role_cfg.services
    /\ role_cfg.primary
    /\ RoleEnv(role_cfg) = env_key

NoRole == [namespace |-> NoneStr, database |-> NoneStr, role |-> NoneStr]

\* faulty variant of ChooseRole: the last role that passes the tests is chosen
ChooseRole_LastMatch(databases, service_name, env_key) ==
    LET hits == {h \in {<<i, j>> : i \in DOMAIN databases, j \in 1..2} :
                    /\ h[2] \in DOMAIN databases[h[1]].roles
                    /\ RoleSelected(databases[h[1]].roles[h[2]], service_name, env_key)}
        final == CHOOSE h \in hits :
                    \A g \in hits : g[1] < h[1] \/ (g[1] = h[1] /\ g[2] <= h[2])
    IN  IF hits = {} THEN NoRole
        ELSE [namespace |-> databases[final[1]].namespace,
              database |-> databases[final[1]].database,
              role |-> databases[final[1]].roles[final[2]].name]

\* the loops of get_service_database_url: `chosen`, the first role in
\* declaration order that passes the tests, or NoRole
ChooseRole(databases, service_name, env_key) ==
    LET hits == {h \in {<<i, j>> : i \in DOMAIN databases, j \in 1..2} :
                    /\ h[2] \in DOMAIN databases[h[1]].roles
                    /\ RoleSelected(databases[h[1]].roles[h[2]], service_name, env_key)}
        first == CHOOSE h \in hits :
                    \A g \in hits : h[1] < g[1] \/ (h[1] = g[1] /\ h[2] <= g[2])
    IN  IF hits = {} THEN NoRole
        ELSE [namespace |-> databases[first[1]].namespace,
              database |-> databases[first[1]].database,
              role |-> databases[first[1]].roles[first[2]].name]

\* get_service_database_url: [out, calls]
get_service_database_url(mgr, databases, service_name, env_key, resp) ==
    LET chosen == ChooseRole(databases, service_name, env_key) IN
    IF ~StrTruthy(service_name)
    THEN [out |-> DatabaseConnectionError("service_name is required", ""), calls |-> <<>>]
    ELSE IF chosen = NoRole \/ ~StrTruthy(chosen.namespace) \/ ~StrTruthy(chosen.database)
    THEN [out |-> DatabaseConnectionError("No primary database mapping found", ""),
          calls |-> <<>>]
    ELSE get_database_url(mgr,
                          [namespace |-> chosen.namespace, secret_key |-> chosen.database,
                           role |-> IF StrTruthy(chosen.role) THEN chosen.role ELSE NoneStr,
                           engine_key |-> NoneStr],
                          resp)

-----------------------------------------------------------------------------
(* config.py: ClientConfig, and the construction of a ProvisionerClient *)

\* The text of an environment variable, or of a base URL, is the sequence of
\* its pieces: a piece is a run of other characters, a blank " " or a "/".
\* The empty string is <<>>; a variable that is not set, and Python None
\* where a text is optional, is Unset. timeout and verify_ssl are left out.

Unset == <<NoneStr>>

\* os.environ.get(name, "") and (os.environ.get(name) or "")
EnvText(env, name) == IF env[name] = Unset THEN <<>> ELSE env[name]

RECURSIVE LStripBlank(_)
LStripBlank(text) ==
    IF text # <<>> /\ text[1] = " " THEN LStripBlank(Tail(text)) ELSE text

RECURSIVE RStripBlank(_)
RStripBlank(text) ==
    IF text # <<>> /\ text[Len(text)] = " "
    THEN RStripBlank(SubSeq(text, 1, Len(text) - 1))
    ELSE text

\* str.strip()
Strip(text) == RStripBlank(LStripBlank(text))

\* text or None
OrNone(text) == IF text = <<>> THEN Unset ELSE text

TextTruthy(text) == text # Unset /\ text # <<>>

ClientConfig(base_url, module_token, project_token, require_token) ==
    [base_url |-> base_url, module_token |-> module_token,
     project_token |-> project_token, require_token |-> require_token]

UrlRequired ==
    "PROVISIONER_URL is required for hit-modules clients."
TokenRequired ==
    "HIT_PROJECT_TOKEN is required for module provisioning."
BaseUrlRequired ==
    "Provisioner base URL missing. Did you forget to set PROVISIONER_URL?"
ModuleTokenRequired ==
    "Provisioner authentication requires HIT_MODULE_ID_TOKEN."

\* ClientConfig.from_env
from_env(env, require_token) ==
    LET base_url      == Strip(EnvText(env, "PROVISIONER_URL"))
        module_token  == OrNone(Strip(EnvText(env, "HIT_MODULE_ID_TOKEN")))
        project_token == OrNone(Strip(EnvText(env, "HIT_PROJECT_TOKEN")))
    IN  IF ~TextTruthy(base_url)
        THEN Raise("ProvisionerConfigError", UrlRequired, "")
        ELSE IF require_token /\ ~(TextTruthy(module_token) \/ TextTruthy(project_token))
        THEN Raise("ProvisionerConfigError", TokenRequired, "")
        ELSE Return(ClientConfig(base_url, module_token, project_token, require_token))

\* the argument `config` left at None
NoConfig == [none |-> TRUE]

\* ProvisionerClient.__init__: a client is the record of its configuration
ProvisionerClient(config, env, require_token) ==
    LET loaded == IF config # NoConfig THEN Return(config)
                  ELSE from_env(env, require_token)
    IN  IF ~Returned(loaded) THEN loaded
        ELSE IF ~TextTruthy(loaded.value.base_url)
        THEN Raise("ProvisionerConfigError", BaseUrlRequired, "")
        ELSE IF require_token /\ ~TextTruthy(loaded.value.module_token)
        THEN Raise("ProvisionerConfigError", ModuleTokenRequired, "")
        ELSE Return([config |-> loaded.value])

\* ProvisionerClient.base_url
client_base_url(client) == RStripSlash(client.config.base_url)

\* ProvisionerClient._build_url raises "Provisioner base URL is not configured"
BuildUrlFails(client) == ~TextTruthy(client_base_url(client))

-----------------------------------------------------------------------------
(* provisioner/: SecretStore and the database-secret endpoint *)

\* The secrets file is given by the dict under its "namespaces": a namespace
\* entry is a JSON value, an object holding under "database" the dict of the
\* stored entries; a stored entry is a JSON value. What the store answers is
\* a JSON object, or JsonNull for Python None.

\* payload.setdefault(k, v)
SetDefault(d, k, v) == IF k \in DOMAIN d THEN d ELSE DictSet(d, k, v)

\* SecretStore.get_database_secret
store_get_database_secret(service, namespace, secret_key, role) ==
    LET namespaces      == service.data
        namespace_entry == DictGet(namespaces, namespace, JsonObj(EmptyDict))
        db_entry        == IF namespace_entry.t = "obj"
                           THEN DictGet(DictGet(namespace_entry.d, "database", EmptyDict),
                                        secret_key, JsonNull)
                           ELSE JsonNull
    IN  IF db_entry.truthy
        THEN IF db_entry.t = "obj"
             THEN Return(JsonObj(SetDefault(SetDefault(SetDefault(db_entry.d,
                             "role", role), "namespace", namespace), "key", secret_key)))
             ELSE Raise("ValueError", "dictionary update sequence element", "")
        ELSE IF StrTruthy(service.default_db_url)
        THEN Return(JsonObj([url |-> service.default_db_url, namespace |-> namespace,
                             key |-> secret_key, role |-> role]))
        ELSE Return(JsonNull)

\* DatabaseSecretRequest: secretKey defaults to "auth-db", role to None
DatabaseSecretRequest(body) ==
    [namespace |-> body.namespace,
     secretKey |-> IF body.secretKey = NoneStr THEN "auth-db" ELSE body.secretKey,
     role |-> body.role]

\* the dependency built by build_auth_dependency; credentials are "none",
\* "valid" (jwt.decode accepts them) or "invalid"
provisioner_require_token(service, credentials) ==
    IF credentials = "none"
    THEN IF service.allow_anonymous THEN Return(EmptyDict) ELSE NotAuthenticated
    ELSE IF credentials = "valid" THEN Return(EmptyDict)
    ELSE HTTPException(401, "Invalid token", "JWTError")

\* fetch_database_secret: POST /api/v1/secrets/database
fetch_database_secret(service, body, credentials) ==
    LET claims  == provisioner_require_token(service, credentials)
        request == DatabaseSecretRequest(body)
        secret  == store_get_database_secret(service, request.namespace,
                                             request.secretKey, request.role)
    IN  IF ~Returned(claims) THEN claims
        ELSE IF ~Returned(secret) THEN secret
        ELSE IF ~secret.value.truthy
        THEN HTTPException(404, "Database secret not found", "")
        ELSE secret

-----------------------------------------------------------------------------
(* The inputs the model draws from *)

CfgA == [settings |-> "increment=1"]
CfgB == [settings |-> "increment=2", secrets |-> "JWT_SECRET"]

ConfigResponses ==
    {HttpExc, HttpResp(200, "json", CfgA), HttpResp(200, "json", CfgB),
     HttpResp(200, "json", EmptyDict), HttpResp(200, "null", EmptyDict),
     HttpResp(200, "empty", EmptyDict), HttpResp(200, "badjson", EmptyDict),
     HttpResp(401, "json", EmptyDict), HttpResp(404, "json", EmptyDict),
     HttpResp(500, "json", EmptyDict)}

PathConfig == <<"/", "hit", "/", "config">>

ServiceTokenHeaders ==
    {NoToken, TokenA, TokenAForged, TokenB, TokenPrjOnly, TokenArray, TokenGarbage}

AuthorizationHeaders ==
    {NoAuthorization, Authorization("Bearer", TokenA), Authorization("Bearer", TokenB),
     Authorization("Bearer", TokenPrjOnly), Authorization("Bearer", TokenArray),
     Authorization("bearer", TokenA), Authorization("Basic", <<"dXNlcjpwdw==">>)}

Request(xhit, auth, path) == [xhit |-> xhit, auth |-> auth, path |-> path]

ResolverRequests ==
    {Request(x, a, PathConfig) : x \in ServiceTokenHeaders, a \in AuthorizationHeaders}

ClaimsA == [prj |-> "acme", svc |-> "billing", sub |-> "svc-billing"]

\* a dict with key k when present, empty otherwise
Field(present, k, v) == IF present THEN k :> v ELSE EmptyDict

Tri == {"absent", "true", "false"}

\* the bodies a token validation may answer with: every combination of
\* valid, module_allowed, method_allowed (absent, true, false), reason and claims
AclResults ==
    {   Field(v # "absent", "valid", v = "true")
     @@ Field(m # "absent", "module_allowed", m = "true")
     @@ Field(me # "absent", "method_allowed", me = "true")
     @@ Field(rs, "reason", "not permitted")
     @@ Field(cl, "claims", ClaimsA) :
        v \in Tri, m \in Tri, me \in Tri, rs \in BOOLEAN, cl \in BOOLEAN}
    \cup {[valid |-> TRUE, claims |-> EmptyDict],
          [valid |-> TRUE, module_allowed |-> FALSE, reason |-> ""]}

ValidateFailures ==
    {HttpExc, HttpResp(200, "empty", EmptyDict), HttpResp(200, "badjson", EmptyDict),
     HttpResp(401, "json", EmptyDict), HttpResp(404, "json", EmptyDict),
     HttpResp(500, "json", EmptyDict)}

AclResponses == ValidateFailures \cup {HttpResp(200, "json", r) : r \in AclResults}

VerifyResponses ==
    ValidateFailures \cup
    {HttpResp(200, "json", [claims |-> ClaimsA]),
     HttpResp(200, "json", [claims |-> EmptyDict]),
     HttpResp(200, "json", [valid |-> TRUE])}

HitConfigVerifyResponses ==
    {HttpExc, HttpResp(401, "json", EmptyDict), HttpResp(200, "json", [claims |-> ClaimsA]),
     HttpResp(200, "json", [claims |-> [sub |-> "user-1"]])}

PathIncrement      == <<"/", "hit", "/", "increment">>
PathIncrementSlash == <<"/", "hit", "/", "increment", "/">>
PathRoot           == <<"/">>
PathIncrementSlashes == <<"/", "hit", "/", "increment", "/", "/">>

GateRequests ==
    {Request(x, a, p) :
        x \in {NoToken, TokenB},
        a \in {NoAuthorization, Authorization("Bearer", TokenA),
               Authorization("bearer", TokenA), Authorization("Bearer", <<"">>),
               Authorization("Basic", <<"dXNlcjpwdw==">>)},
        p \in {PathIncrement, PathIncrementSlash, PathIncrementSlashes, PathRoot}}

ModuleArgs == {NoneStr, "ping-pong"}
MethodArgs == {NoneStr, "get_count"}

RouteRequests ==
    {Request(x, a, PathConfig) :
        x \in {NoToken, TokenA, TokenB},
        a \in {NoAuthorization, Authorization("Bearer", TokenA),
               Authorization("Bearer", TokenB), Authorization("bearer", TokenA)}}

\* tokens whose triples meet in one cache key, for a module named ping-pong:
\* (a:b, c) and (a, b:c), and (default, default) with the token-less loader
TenantRequests ==
    {Request(x, NoAuthorization, PathConfig) :
        x \in {TokenA, TokenDefault, TokenColonPrj, TokenColonSvc}}

UrlA == <<"postgresql", "db-a">>
UrlB == <<"postgres", "db-b">>
UrlC == <<"postgresql+psycopg2", "db-c">>
UrlBad == <<"", "not a url">>

SecretResponses ==
    {HttpExc, HttpResp(401, "json", EmptyDict), HttpResp(404, "json", EmptyDict),
     HttpResp(500, "json", EmptyDict), HttpResp(200, "badjson", EmptyDict),
     HttpResp(200, "empty", EmptyDict), HttpResp(200, "null", EmptyDict),
     HttpResp(200, "array", EmptyDict), HttpResp(200, "json", EmptyDict),
     HttpResp(200, "json", [url |-> UrlA]), HttpResp(200, "json", [url |-> UrlB]),
     HttpResp(200, "json", [DATABASE_URL |-> UrlA]),
     HttpResp(200, "json", [url |-> <<>>, DATABASE_URL |-> UrlC]),
     HttpResp(200, "json", [host |-> <<"db.internal">>]),
     HttpResp(200, "json", [url |-> UrlBad])}

DbArg(secret_key, role, engine_key) ==
    [namespace |-> "shared", secret_key |-> secret_key, role |-> role,
     engine_key |-> engine_key]

DbArgs ==
    {DbArg("auth-db", NoneStr, NoneStr), DbArg("auth-db", "reader", NoneStr),
     DbArg("auth-db", NoneStr, "primary"), DbArg("tasks-db", NoneStr, "primary")}

\* the calls and the answers of the concurrent runs
ThreadArgs == {DbArg("auth-db", NoneStr, NoneStr), DbArg("tasks-db", NoneStr, NoneStr)}

ThreadSecretResponses ==
    {HttpExc, HttpResp(200, "json", [url |-> UrlA]), HttpResp(200, "json", [url |-> UrlB]),
     HttpResp(200, "json", [url |-> UrlBad])}

Managers ==
    [base_url : {<<"http://provisioner", "/">>, <<"/">>}, token : {TokenA},
     sqlalchemy : BOOLEAN, psycopg : BOOLEAN]

DefaultManager ==
    [base_url |-> <<"http://provisioner", "/">>, token |-> TokenA,
     sqlalchemy |-> TRUE, psycopg |-> TRUE]

\* the engines one manager creates in a run of the model
MaxEngines == 2

\* the threads that call one manager concurrently
NumThreads == 2
Threads == 1..NumThreads

\* hit.yaml `databases:` declarations: roles of a database, in order
RoleCfg(name, services, primary, env) ==
    [name |-> name, services |-> services, primary |-> primary, env |-> env]

RoleChoices(name) ==
    {RoleCfg(name, s, p, e) :
        s \in {{"web"}, {"worker"}}, p \in BOOLEAN, e \in {"DATABASE_URL", "READ_URL", NoneStr}}

LastRoleChoices ==
    {RoleCfg(NoneStr, {"web", "worker"}, p, e) : p \in BOOLEAN, e \in {"DATABASE_URL", NoneStr}}

DatabaseDeclarations ==
    {<<[namespace |-> ns, database |-> "app-db", roles |-> <<r1, r2>>],
       [namespace |-> "shared", database |-> "tasks-db", roles |-> <<r3>>]>> :
        ns \in {"tenant", NoneStr}, r1 \in RoleChoices("writer"),
        r2 \in RoleChoices("reader"), r3 \in LastRoleChoices}

ServiceNames == {"web", ""}
EnvKeys == {"DATABASE_URL", "READ_URL"}

ServiceSecretResponses ==
    {HttpExc, HttpResp(404, "json", EmptyDict), HttpResp(200, "json", [url |-> UrlA])}

\* the headers the extractor is given, and the tokens the decoder is given
ExtractorRequests ==
    {Request(x, a, PathConfig) :
        x \in {NoToken, <<"">>, TokenA, TokenB},
        a \in {NoAuthorization, Authorization("Bearer", TokenA),
               Authorization("Bearer", <<"">>), Authorization("Bearer", <<"Bearer abc123">>),
               Authorization("bearer", TokenA), Authorization("Basic", <<"dXNlcjpwdw==">>)}}

Texts ==
    {TextAcmeBilling, TextAcmeWeb, TextAcmeTasks, TextPrjOnly, TextEmptyObj, TextArray,
     TextString, TextNumber, TextTrue, TextNull, TextHello}

PayloadSegments ==
    {Unpadded(text) : text \in Texts} \cup {urlsafe_b64encode(text) : text \in Texts}
    \cup {Chars(TextAcmeBilling, 40, 0, 1), Chars(TextAcmeTasks, 38, 0, 1),
          Chars(TextAcmeTasks, 38, 1, 0), Chars(TextEmptyObj, 2, 0, 0),
          Chars(NoText, 1, 0, 0), Chars(NoText, 0, 0, 3), Chars(NoText, 0, 0, 0)}

DecoderTokens ==
    {<<"h", chars, sig>> : chars \in PayloadSegments, sig \in {"sig", "forged", ""}}
    \cup {<<"h", Unpadded(text)>> : text \in {TextAcmeBilling, TextHello}}
    \cup {<<"h", Unpadded(text), "sig", "x">> : text \in {TextAcmeBilling, TextHello}}
    \cup {<<"">>, <<"abc123">>}

Environments ==
    {[PROVISIONER_URL |-> u, HIT_MODULE_NAME |-> m] :
        u \in {"", "http://provisioner"}, m \in {NoneStr, "ping-pong"}}

-----------------------------------------------------------------------------
(* The state machine *)

NoRequest == Request(NoToken, NoAuthorization, <<>>)
NoArgs == [module_name |-> NoneStr, method_name |-> NoneStr]

\* what an operation was given, did and answered; `before` is the cache it found
Observation(op, request, args, resps, res) ==
    [op |-> op, request |-> request, args |-> args, resps |-> resps,
     calls |-> res.calls, out |-> res.out, key |-> res.key, token |-> res.token,
     before |-> config_cache]

\* the project and service a resolution with this token is made for
ProjectOf(token) ==
    IF token = NoToken THEN NoneStr ELSE ClaimGet(decode_token_claims(token), "prj")
ServiceOf(token) ==
    IF token = NoToken THEN NoneStr ELSE ClaimGet(decode_token_claims(token), "svc")

\* history of the cache writes: the entry res stored, if any, is recorded with
\* the token, project and service of the resolution that fetched it
Provenance(org, cache, res) ==
    IF res.cache = cache THEN org
    ELSE DictSet(org, res.key,
                 [token |-> res.token, project |-> ProjectOf(res.token),
                  service |-> ServiceOf(res.token)])

Nothing == [calls |-> <<>>, out |-> Return(EmptyDict), key |-> "", token |-> NoToken]

\* a thread that is not inside a call of the manager
Idle == [pc |-> "idle", args |-> NoArgs, key |-> "", url |-> <<>>]

EmptyLedger == [created |-> {}, disposed |-> {}, returned |-> {}]

\* a manager constructed and not yet used
\* no provisioner service, and no call in progress in the thread pool
NoProvisioner == [data |-> EmptyDict, default_db_url |-> NoneStr, allow_anonymous |-> FALSE]
Workers == {"w1", "w2"}
\* module_config as imported: nothing loaded, nothing cached
NotLoaded == [loaded |-> FALSE, cache |-> EmptyDict]
\* auto_events as imported: no pending events, no publish task, nothing published
NoEvents == [pending |-> EmptyDict, tasks |-> <<>>, open |-> [s \in {"s1", "s2"} |-> 1],
             committed |-> {}, rolled |-> {}, published |-> {}]
IdleWorker == [pc |-> "idle", cleared |-> FALSE, token |-> NoToken]

InitOthers ==
    /\ provisioner = NoProvisioner
    /\ pool = [w \in Workers |-> IdleWorker]
    /\ preclear = {}
    /\ startup = NotLoaded
    /\ auto_events = NoEvents

NewManager(mgr) ==
    /\ manager = mgr
    /\ engines = EmptyDict
    /\ threads = [t \in Threads |-> Idle]
    /\ ledger = EmptyLedger

Init ==
    /\ environ \in Environments
    /\ config_cache = EmptyDict
    /\ client_cache = FALSE
    /\ inflight = NoRequest
    /\ last = Observation("init", NoRequest, NoArgs, <<>>, Nothing)
    /\ origin = EmptyDict
    /\ NewManager(DefaultManager)
    /\ declared = <<>>
    /\ InitOthers

InitDb ==
    /\ environ = [PROVISIONER_URL |-> "http://provisioner", HIT_MODULE_NAME |-> "ping-pong"]
    /\ config_cache = EmptyDict
    /\ client_cache = FALSE
    /\ inflight = NoRequest
    /\ last = Observation("init", NoRequest, NoArgs, <<>>, Nothing)
    /\ origin = EmptyDict
    /\ \E mgr \in Managers : NewManager(mgr)
    /\ declared = <<>>
    /\ InitOthers

\* a request arrives at a route
Receive(requests) ==
    /\ inflight = NoRequest
    /\ inflight' \in requests
    /\ last' = Observation("receive", NoRequest, NoArgs, <<>>, Nothing)
    /\ UNCHANGED <<environ, config_cache, client_cache, origin>>
    /\ UNCHANGED <<dbvars, othervars>>

\* a route that depends on get_module_config_from_request handles the request;
\* resp1 and resp2 are the remote's answers to its module-config calls (resp2
\* is drawn only when a second call is made)
ResolveForRequest ==
    /\ inflight # NoRequest
    /\ \E resp1 \in ConfigResponses :
        \E probe \in {get_module_config_from_request(inflight, config_cache, environ,
                                                     resp1, resp1)} :
          \E resp2 \in (IF Len(probe.calls) = 2 THEN ConfigResponses ELSE {resp1}) :
            \E res \in {IF resp2 = resp1 THEN probe
                         ELSE get_module_config_from_request(inflight, config_cache,
                                                             environ, resp1, resp2)} :
              /\ config_cache' = res.cache
              /\ origin' = Provenance(origin, config_cache, res)
              /\ last' = Observation("resolve", inflight, NoArgs, <<resp1, resp2>>, res)
              /\ inflight' = NoRequest
              /\ UNCHANGED <<environ, client_cache>>
              /\ UNCHANGED <<dbvars, othervars>>

\* startup code calls get_module_config; resp is the remote's answer to its
\* module-config call (one value when no call is made)
GetModuleConfig ==
    /\ inflight = NoRequest
    /\ \E resp \in ConfigResponses :
        \E res \in {get_module_config(config_cache, environ, resp)} :
          /\ res.calls # <<>> \/ resp = HttpExc
          /\ config_cache' = res.cache
          /\ origin' = Provenance(origin, config_cache, res)
          /\ last' = Observation("startup", NoRequest, NoArgs, <<resp>>, res)
          /\ UNCHANGED <<environ, client_cache, inflight>>
          /\ UNCHANGED <<dbvars, othervars>>

\* clear_config_cache
ClearConfigCache ==
    /\ config_cache' = clear_config_cache(config_cache)
    /\ origin' = [k \in DOMAIN config_cache' |-> origin[k]]
    /\ last' = Observation("clear", NoRequest, NoArgs, <<>>, Nothing)
    /\ pool' = [w \in Workers |-> IF pool[w].pc = "fetching"
                                  THEN [pool[w] EXCEPT !.cleared = TRUE] ELSE pool[w]]
    /\ preclear' = {}
    /\ UNCHANGED <<environ, client_cache, inflight, provisioner, startup, auto_events>>
    /\ UNCHANGED dbvars

\* a route that depends on require_provisioned_token handles the request;
\* resp is the remote's answer to the validation call (one value when no call
\* is made)
RequireProvisionedToken ==
    /\ inflight # NoRequest
    /\ \E resp \in VerifyResponses :
        \E res \in {require_provisioned_token(inflight, environ, client_cache, resp)} :
          /\ res.calls # <<>> \/ resp = HttpExc
          /\ client_cache' = res.client_cache
          /\ last' = Observation("gate", inflight, NoArgs, <<resp>>, res)
          /\ inflight' = NoRequest
          /\ UNCHANGED <<environ, config_cache, origin>>
          /\ UNCHANGED <<dbvars, othervars>>

\* a route that depends on require_method_acl(module_name, method_name)
\* handles the request
RequireMethodAcl ==
    /\ inflight # NoRequest
    /\ \E module_name \in ModuleArgs, method_name \in MethodArgs, resp \in AclResponses :
        \E res \in {require_method_acl(module_name, method_name, inflight, environ,
                                        client_cache, resp)} :
          /\ res.calls # <<>> \/ resp = HttpExc
          /\ client_cache' = res.client_cache
          /\ last' = Observation("acl", inflight,
                                 [module_name |-> module_name, method_name |-> method_name],
                                 <<resp>>, res)
          /\ inflight' = NoRequest
          /\ UNCHANGED <<environ, config_cache, origin>>
          /\ UNCHANGED <<dbvars, othervars>>

\* the /hit/config route handles the request
HitConfig ==
    /\ inflight # NoRequest
    /\ \E vresp \in HitConfigVerifyResponses, resp1 \in ConfigResponses :
        \E probe \in {hit_config(inflight, config_cache, environ, client_cache,
                                 vresp, resp1, resp1)} :
          /\ Len(probe.calls) >= 2 \/ resp1 = HttpExc
          /\ Len(probe.calls) >= 1 \/ vresp = HttpExc
          /\ \E resp2 \in (IF Len(probe.calls) = 3 THEN ConfigResponses ELSE {resp1}) :
              \E res \in {IF resp2 = resp1 THEN probe
                           ELSE hit_config(inflight, config_cache, environ, client_cache,
                                           vresp, resp1, resp2)} :
                /\ config_cache' = res.cache
                /\ origin' = Provenance(origin, config_cache, res)
                /\ client_cache' = res.client_cache
                /\ last' = Observation("hit_config", inflight, NoArgs,
                                       <<vresp, resp1, resp2>>, res)
                /\ inflight' = NoRequest
                /\ UNCHANGED environ
                /\ UNCHANGED <<dbvars, othervars>>

\* the /hit/reload route handles the request
HitReloadConfig ==
    /\ inflight # NoRequest
    /\ \E vresp \in HitConfigVerifyResponses, resp1 \in ConfigResponses :
        \E probe \in {hit_reload_config(inflight, config_cache, environ, client_cache,
                                        vresp, resp1, resp1)} :
          /\ Len(probe.calls) >= 2 \/ resp1 = HttpExc
          /\ Len(probe.calls) >= 1 \/ vresp = HttpExc
          /\ \E resp2 \in (IF Len(probe.calls) = 3 THEN ConfigResponses ELSE {resp1}) :
              \E res \in {IF resp2 = resp1 THEN probe
                           ELSE hit_reload_config(inflight, config_cache, environ,
                                                  client_cache, vresp, resp1, resp2)} :
                /\ config_cache' = res.cache
                /\ origin' =
                       LET kept == [k \in (DOMAIN res.cache \cap DOMAIN origin) \ {res.key}
                                       |-> origin[k]]
                       IN  IF res.key \in DOMAIN res.cache
                           THEN DictSet(kept, res.key,
                                        [token |-> res.token,
                                         project |-> ProjectOf(res.token),
                                         service |-> ServiceOf(res.token)])
                           ELSE kept
                /\ client_cache' = res.client_cache
                /\ last' = Observation("hit_reload", inflight, NoArgs,
                                       <<vresp, resp1, resp2>>, res)
                /\ inflight' = NoRequest
                /\ UNCHANGED environ
                /\ UNCHANGED <<dbvars, othervars>>

\* the ledger after an operation that returned `out` for key and left the
\* registry engs: a returned engine is recorded, a new one also as created
Recorded(led, engs, key, out, isengine) ==
    [led EXCEPT
        !.created = @ \cup EngineIds(engs),
        !.returned = IF isengine /\ Returned(out) THEN @ \cup {<<key, out.value.id>>}
                     ELSE @]

\* get_engine is called and runs to its end; resp is the remote's answer to
\* its database-secret call (one value when no call is made)
GetEngine ==
    \E args \in DbArgs, resp \in SecretResponses :
      \E res \in {get_engine(manager, engines, args, resp, Cardinality(ledger.created) + 1)} :
        /\ res.calls # <<>> \/ resp = HttpExc
        /\ res.engines # engines => Cardinality(ledger.created) < MaxEngines
        /\ engines' = res.engines
        /\ ledger' = Recorded(ledger, res.engines, res.key, res.out, TRUE)
        /\ last' = Observation("get_engine", NoRequest, args, <<resp>>, res)
        /\ UNCHANGED <<corevars, othervars, declared, manager, threads>>

\* get_database_url is called; resp is the remote's answer
GetDatabaseUrl ==
    \E args \in DbArgs, resp \in SecretResponses :
      \E res \in {get_database_url(manager, args, resp)} :
        /\ res.calls # <<>> \/ resp = HttpExc
        /\ last' = Observation("get_database_url", NoRequest, args, <<resp>>,
                               [out |-> res.out, calls |-> res.calls,
                                key |-> "", token |-> manager.token])
        /\ UNCHANGED <<corevars, othervars, declared, manager, engines, threads, ledger>>

\* dispose is called and runs to its end: every engine of the registry is
\* disposed, then the registry is cleared; failing are the engines whose
\* dispose() raises
Dispose ==
    \E failing \in SUBSET EngineIds(engines) :
      \E res \in {dispose(engines, failing)} :
        /\ engines' = res.engines
        /\ ledger' = [ledger EXCEPT !.disposed = @ \cup res.called]
        /\ last' = Observation("dispose", NoRequest, NoArgs, <<failing>>,
                               [out |-> res.out, calls |-> <<>>, key |-> "",
                                token |-> manager.token])
        /\ UNCHANGED <<corevars, othervars, declared, manager, threads>>

\* thread t enters get_engine: up to the registry lookup (no suspension before it)
ThreadLookup(t) ==
    /\ threads[t].pc = "idle"
    /\ \E args \in ThreadArgs :
        \E look \in {get_engine_lookup(manager, engines, args)} :
          /\ threads' = IF Returned(look.out) /\ ~look.hit
                        THEN [threads EXCEPT ![t] = [pc |-> "fetching", args |-> args,
                                                     key |-> look.key, url |-> <<>>]]
                        ELSE threads
          /\ ledger' = Recorded(ledger, engines, look.key, look.out, look.hit)
          /\ last' = Observation("lookup", NoRequest, args, <<>>,
                                 [out |-> look.out, calls |-> <<>>, key |-> look.key,
                                  token |-> manager.token])
          /\ UNCHANGED <<corevars, othervars, declared, manager, engines>>

\* thread t, suspended in the database-secret call, gets the remote's answer
ThreadFetch(t) ==
    /\ threads[t].pc = "fetching"
    /\ \E resp \in ThreadSecretResponses :
        \E res \in {get_database_url(manager, threads[t].args, resp)} :
          /\ res.calls # <<>> \/ resp = HttpExc
          /\ threads' = IF Returned(res.out)
                        THEN [threads EXCEPT ![t].pc = "creating", ![t].url = res.out.value]
                        ELSE [threads EXCEPT ![t] = Idle]
          /\ last' = Observation("fetch", NoRequest, threads[t].args, <<resp>>,
                                 [out |-> res.out, calls |-> res.calls,
                                  key |-> threads[t].key, token |-> manager.token])
          /\ UNCHANGED <<corevars, othervars, declared, manager, engines, ledger>>

\* thread t creates its engine, stores it under its key and returns it
ThreadCreate(t) ==
    /\ threads[t].pc = "creating"
    /\ Cardinality(ledger.created) < MaxEngines
    /\ \E made \in {get_engine_create(manager, engines, threads[t].key, threads[t].url,
                                      Cardinality(ledger.created) + 1)} :
        /\ engines' = made.engines
        /\ ledger' = Recorded(ledger, made.engines, threads[t].key, made.out, TRUE)
        /\ threads' = [threads EXCEPT ![t] = Idle]
        /\ last' = Observation("create", NoRequest, threads[t].args, <<>>,
                               [out |-> made.out, calls |-> <<>>, key |-> threads[t].key,
                                token |-> manager.token])
        /\ UNCHANGED <<corevars, othervars, declared, manager>>

\* thread t enters dispose: the engines of list(self._engines.items()) are disposed
ThreadDisposeEngines(t) ==
    /\ threads[t].pc = "idle"
    /\ threads' = [threads EXCEPT ![t].pc = "clearing"]
    /\ ledger' = [ledger EXCEPT !.disposed = @ \cup EngineIds(engines)]
    /\ last' = Observation("dispose", NoRequest, NoArgs, <<>>, Nothing)
    /\ UNCHANGED <<corevars, othervars, declared, manager, engines>>

\* thread t ends dispose: self._engines.clear()
ThreadDisposeClear(t) ==
    /\ threads[t].pc = "clearing"
    /\ engines' = EmptyDict
    /\ threads' = [threads EXCEPT ![t] = Idle]
    /\ last' = Observation("clear_engines", NoRequest, NoArgs, <<>>, Nothing)
    /\ UNCHANGED <<corevars, othervars, declared, manager, ledger>>

\* get_service_database_url is called; resp is the remote's answer to its
\* database-secret call (one value when no call is made)
GetServiceDatabaseUrl ==
    \E service_name \in ServiceNames, env_key \in EnvKeys, resp \in ServiceSecretResponses :
      \E res \in {get_service_database_url(manager, declared, service_name, env_key, resp)} :
        /\ res.calls # <<>> \/ resp = HttpExc
        /\ last' = Observation("service_url", NoRequest,
                               [databases |-> declared, service_name |-> service_name,
                                env_key |-> env_key],
                               <<resp>>,
                               [out |-> res.out, calls |-> res.calls, key |-> "",
                                token |-> manager.token])
        /\ UNCHANGED <<corevars, othervars, declared, manager, engines, threads, ledger>>

\* _extract_bearer_token is applied to the request
ExtractBearerToken ==
    /\ inflight # NoRequest
    /\ \E token \in {extract_bearer_token(inflight)} :
        last' = Observation("extract", inflight, NoArgs, <<>>,
                            [out |-> Return(token), calls |-> <<>>, key |-> "",
                             token |-> token])
    /\ inflight' = NoRequest
    /\ UNCHANGED <<environ, config_cache, client_cache, origin>>
    /\ UNCHANGED <<dbvars, othervars>>

\* _decode_token_claims is applied to a token
DecodeTokenClaims ==
    /\ inflight = NoRequest
    /\ \E token \in DecoderTokens :
        last' = Observation("decode", NoRequest, NoArgs, <<>>,
                            [out |-> Return(decode_token_claims(token)), calls |-> <<>>,
                             key |-> "", token |-> token])
    /\ UNCHANGED <<environ, config_cache, client_cache, inflight, origin>>
    /\ UNCHANGED <<dbvars, othervars>>

Next ==
    \/ Receive(ResolverRequests)
    \/ ResolveForRequest
    \/ ClearConfigCache

Spec == Init /\ [][Next]_vars

NextGate ==
    \/ Receive(GateRequests)
    \/ RequireProvisionedToken
    \/ RequireMethodAcl

SpecGate == Init /\ [][NextGate]_vars

NextRoute ==
    \/ Receive(RouteRequests)
    \/ HitConfig
    \/ HitReloadConfig
    \/ ClearConfigCache

SpecRoute == Init /\ [][NextRoute]_vars

NextTenants ==
    \/ Receive(TenantRequests)
    \/ ResolveForRequest
    \/ GetModuleConfig
    \/ ClearConfigCache

SpecTenants == Init /\ [][NextTenants]_vars

NextDb ==
    \/ GetEngine
    \/ GetDatabaseUrl
    \/ Dispose

SpecDb == InitDb /\ [][NextDb]_vars

NextDbThreads ==
    \E t \in Threads :
        \/ ThreadLookup(t)
        \/ ThreadFetch(t)
        \/ ThreadCreate(t)
        \/ ThreadDisposeEngines(t)
        \/ ThreadDisposeClear(t)

SpecDbThreads == InitDb /\ [][NextDbThreads]_vars

InitService ==
    /\ environ = [PROVISIONER_URL |-> "http://provisioner", HIT_MODULE_NAME |-> "ping-pong"]
    /\ config_cache = EmptyDict
    /\ client_cache = FALSE
    /\ inflight = NoRequest
    /\ last = Observation("init", NoRequest, NoArgs, <<>>, Nothing)
    /\ origin = EmptyDict
    /\ \E mgr \in {m \in Managers : m.sqlalchemy /\ m.psycopg} : NewManager(mgr)
    /\ declared \in DatabaseDeclarations
    /\ InitOthers

NextService == GetServiceDatabaseUrl

SpecService == InitService /\ [][NextService]_vars

NextTokens ==
    \/ Receive(ExtractorRequests)
    \/ ExtractBearerToken
    \/ DecodeTokenClaims

SpecTokens == Init /\ [][NextTokens]_vars

\* the values of PROVISIONER_URL, and of the two token variables
UrlTexts ==
    {Unset, <<>>, <<" ">>, <<"https://provisioner.dev">>,
     <<" ", "https://provisioner.dev", "/", " ">>, <<"/">>}
TokenTexts == {Unset, <<>>, <<" ">>, <<"test-token">>, <<" ", "test-token", " ">>}

ClientEnvironments ==
    [PROVISIONER_URL : UrlTexts, HIT_MODULE_ID_TOKEN : TokenTexts,
     HIT_PROJECT_TOKEN : TokenTexts, HIT_MODULE_NAME : {"ping-pong"}]

\* the configurations a caller hands to ProvisionerClient
GivenConfigs ==
    {ClientConfig(u, m, Unset, FALSE) :
        u \in {<<>>, <<" ">>, <<"/">>, <<"https://provisioner.dev">>},
        m \in {Unset, <<"test-token">>}}

ConfigArgs(config, require_token) ==
    [module_name |-> NoneStr, method_name |-> NoneStr, config |-> config,
     require_token |-> require_token]

\* ClientConfig.from_env(require_token=...)
FromEnv ==
    \E require_token \in BOOLEAN :
        /\ last' = Observation("from_env", NoRequest, ConfigArgs(NoConfig, require_token), <<>>,
                       [out |-> from_env(environ, require_token), calls |-> <<>>,
                        key |-> "", token |-> NoToken])
        /\ UNCHANGED <<corevars, dbvars, othervars>>

\* ProvisionerClient(config, require_token=...)
NewProvisionerClient ==
    \E config \in GivenConfigs \cup {NoConfig}, require_token \in BOOLEAN :
        /\ last' = Observation("client", NoRequest, ConfigArgs(config, require_token), <<>>,
                       [out |-> ProvisionerClient(config, environ, require_token),
                        calls |-> <<>>, key |-> "", token |-> NoToken])
        /\ UNCHANGED <<corevars, dbvars, othervars>>

InitConfig ==
    /\ environ \in ClientEnvironments
    /\ config_cache = EmptyDict
    /\ client_cache = FALSE
    /\ inflight = NoRequest
    /\ last = Observation("init", NoRequest, NoArgs, <<>>, Nothing)
    /\ origin = EmptyDict
    /\ NewManager(DefaultManager)
    /\ declared = <<>>
    /\ InitOthers

NextConfig == FromEnv \/ NewProvisionerClient

SpecConfig == InitConfig /\ [][NextConfig]_vars

StoredUrl == "postgresql://stored/db"
DefaultUrl == "postgresql://default/db"

\* the values stored under a secret key
StoredEntries ==
    {JsonObj([url |-> StoredUrl]),
     JsonObj([url |-> StoredUrl, role |-> "writer", namespace |-> "other"]),
     JsonObj(EmptyDict), JsonStr}

StoredDatabases ==
    UNION {[keys -> StoredEntries] : keys \in SUBSET {"auth-db", "tasks-db"}}

NamespaceEntries ==
    {JsonStr, JsonObj(EmptyDict)} \cup {JsonObj([database |-> db]) : db \in StoredDatabases}

Provisioners ==
    [data : {EmptyDict} \cup {[ns \in {"shared"} |-> e] : e \in NamespaceEntries},
     default_db_url : {NoneStr, "", DefaultUrl},
     allow_anonymous : BOOLEAN]

SecretBodies ==
    [namespace : {"shared", "tenant"}, secretKey : {NoneStr, "auth-db", "tasks-db"},
     role : {NoneStr, "reader"}]

SecretArgs(body, credentials) ==
    [module_name |-> NoneStr, method_name |-> NoneStr, body |-> body,
     credentials |-> credentials]

\* the provisioner answers a database-secret request
FetchDatabaseSecret ==
    \E body \in SecretBodies, credentials \in {"none", "valid", "invalid"} :
        /\ last' = Observation("secret", NoRequest, SecretArgs(body, credentials), <<>>,
                       [out |-> fetch_database_secret(provisioner, body, credentials),
                        calls |-> <<>>, key |-> "", token |-> NoToken])
        /\ UNCHANGED <<corevars, dbvars, provisioner, pool, preclear, startup, auto_events>>

InitProvisioner ==
    /\ environ = [PROVISIONER_URL |-> "http://provisioner", HIT_MODULE_NAME |-> "ping-pong"]
    /\ config_cache = EmptyDict
    /\ client_cache = FALSE
    /\ inflight = NoRequest
    /\ last = Observation("init", NoRequest, NoArgs, <<>>, Nothing)
    /\ origin = EmptyDict
    /\ NewManager(DefaultManager)
    /\ declared = <<>>
    /\ provisioner \in Provisioners
    /\ pool = [w \in Workers |-> IdleWorker]
    /\ preclear = {}
    /\ startup = NotLoaded
    /\ auto_events = NoEvents

NextProvisioner == FetchDatabaseSecret

SpecProvisioner == InitProvisioner /\ [][NextProvisioner]_vars

PoolRequests ==
    {Request(x, NoAuthorization, PathConfig) : x \in {TokenA, TokenDefault}}

\* A thread-pool worker calls get_module_config (a synchronous dependency):
\* it looks the key up and, on a miss, sends the module-config call and waits
\* for the answer, during which other threads run.
PoolCall(w) ==
    /\ pool[w].pc = "idle"
    /\ \E probe \in {get_module_config(config_cache, environ, HttpExc)} :
         IF probe.calls = <<>>
         THEN /\ last' = Observation("pool", NoRequest, NoArgs, <<>>, probe)
              /\ UNCHANGED pool
         ELSE /\ last' = Observation("pool_call", NoRequest, NoArgs, <<>>, Nothing)
              /\ pool' = [pool EXCEPT ![w] = [pc |-> "fetching", cleared |-> FALSE,
                                              token |-> NoToken]]
    /\ UNCHANGED <<corevars, dbvars, provisioner, preclear, startup, auto_events>>

\* The answer arrives: the worker stores the configuration under its key,
\* whatever the cache holds by now, and returns it.
PoolReturn(w) ==
    /\ pool[w].pc = "fetching"
    /\ \E resp \in ConfigResponses :
        \E res \in {get_module_config(EmptyDict, environ, resp)} :
          LET stored == res.key \in DOMAIN res.cache IN
          /\ config_cache' = IF stored THEN DictSet(config_cache, res.key, res.cache[res.key])
                             ELSE config_cache
          /\ origin' = IF stored
                       THEN DictSet(origin, res.key,
                                    [token |-> res.token, project |-> ProjectOf(res.token),
                                     service |-> ServiceOf(res.token)])
                       ELSE origin
          /\ preclear' = IF ~stored THEN preclear
                         ELSE IF pool[w].cleared THEN preclear \cup {res.key}
                         ELSE preclear \ {res.key}
          /\ last' = Observation("pool", NoRequest, NoArgs, <<resp>>, res)
    /\ pool' = [pool EXCEPT ![w] = IdleWorker]
    /\ UNCHANGED <<environ, client_cache, inflight, provisioner, startup, auto_events>>
    /\ UNCHANGED dbvars

NextPool ==
    \/ \E w \in Workers : PoolCall(w)
    \/ \E w \in Workers : PoolReturn(w)
    \/ ClearConfigCache
    \/ Receive(PoolRequests)
    \/ ResolveForRequest

SpecPool == Init /\ [][NextPool]_vars

RaceTokens == {NoToken, TokenA, TokenAForged, TokenB}

\* A thread calls _load_module_config with the module name of the
\* environment and the token, project and service of its request: it looks
\* the key up and, on a miss, sends the module-config call and waits.
LoadCall(w) ==
    /\ pool[w].pc = "idle"
    /\ get_module_name(environ) # ""
    /\ \E token \in RaceTokens :
        \E probe \in {[token |-> token] @@
                      load_module_config(config_cache, environ, get_module_name(environ),
                                         ProjectOf(token), ServiceOf(token), token, HttpExc)} :
         IF probe.calls = <<>>
         THEN /\ last' = Observation("load", NoRequest, NoArgs, <<>>, probe)
              /\ UNCHANGED pool
         ELSE /\ last' = Observation("load_call", NoRequest, NoArgs, <<>>, Nothing)
              /\ pool' = [pool EXCEPT ![w] = [pc |-> "loading", cleared |-> FALSE,
                                              token |-> token]]
    /\ UNCHANGED <<corevars, dbvars, provisioner, preclear, startup, auto_events>>

\* The answer arrives: the thread writes the configuration it fetched under
\* its key into the cache as it is by now, and returns its augmented copy.
LoadReturn(w) ==
    /\ pool[w].pc = "loading"
    /\ \E resp \in ConfigResponses :
        \E res \in {[token |-> pool[w].token] @@
                    load_module_config(EmptyDict, environ, get_module_name(environ),
                                       ProjectOf(pool[w].token), ServiceOf(pool[w].token),
                                       pool[w].token, resp)} :
          LET stored == res.key \in DOMAIN res.cache IN
          /\ config_cache' = IF stored
                             THEN CacheStore(config_cache, res.key, res.cache[res.key])
                             ELSE config_cache
          /\ origin' = IF stored
                       THEN DictSet(origin, res.key,
                                    [token |-> res.token, project |-> ProjectOf(res.token),
                                     service |-> ServiceOf(res.token)])
                       ELSE origin
          /\ last' = Observation("load", NoRequest, NoArgs, <<resp>>, res)
    /\ pool' = [pool EXCEPT ![w] = IdleWorker]
    /\ UNCHANGED <<environ, client_cache, inflight, provisioner, preclear, startup, auto_events>>
    /\ UNCHANGED dbvars

NextRace ==
    \/ \E w \in Workers : LoadCall(w)
    \/ \E w \in Workers : LoadReturn(w)

SpecRace == Init /\ [][NextRace]_vars

\* the answers one HTTP attempt can get
AttemptResponses ==
    {HttpExc} \cup
    {HttpResp(s, c, b) : s \in {200, 201, 204, 401, 403, 404, 500},
                         c \in {"empty", "json", "badjson", "null", "array"},
                         b \in {EmptyDict, CfgA}}

RequestArgs(expected_status) ==
    [module_name |-> NoneStr, method_name |-> NoneStr, expected_status |-> expected_status]

\* what _request gives its caller: the parsed body with its JSON type, or the
\* error raised with its status_code
RequestOutcome(r) ==
    IF r.err # "" THEN [Raise(r.err, "", "") EXCEPT !.status = r.status_code]
    ELSE Return([t |-> r.t, value |-> r.value])

\* ProvisionerClient._request on a client with a base URL: one HTTP attempt,
\* answered by resp
ClientRequest ==
    \E resp \in AttemptResponses, expected_status \in {200, 201, 401, 404},
       endpoint \in {ConfigEndpoint, SecretEndpoint} :
        /\ last' = Observation("request", NoRequest, RequestArgs(expected_status), <<resp>>,
                       [out |-> RequestOutcome(client_request(resp, expected_status)),
                        calls |-> <<Call(endpoint, NoToken,
                                         Payload(NoToken, NoneStr, NoneStr), resp)>>,
                        key |-> "", token |-> NoToken])
        /\ UNCHANGED <<corevars, dbvars, othervars>>

NextClient == ClientRequest

SpecClient == InitDb /\ [][NextClient]_vars

-----------------------------------------------------------------------------
(* module_config.py: the startup configuration *)

\* The values of a configuration and of a default: an int (not negative), a
\* string, a bool or None. A string, and the text of an environment variable
\* read here, is the sequence of its characters. Floats are left out.
PyInt(n) == [int |-> n]
PyStr(text) == [str |-> text]
PyBool(b) == [bool |-> b]
PyNone == [none |-> TRUE]
\* a JSON array where a configuration object was expected
PyArray == [array |-> TRUE]

IsInt(v) == "int" \in DOMAIN v
IsBool(v) == "bool" \in DOMAIN v
IsStr(v) == "str" \in DOMAIN v
IsArray(v) == "array" \in DOMAIN v

Digits == <<"0", "1", "2", "3", "4", "5", "6", "7", "8", "9">>

RECURSIVE IntText(_)
IntText(n) ==
    IF n < Len(Digits) THEN <<Digits[n + 1]>>
    ELSE IntText(n \div Len(Digits)) \o <<Digits[(n % Len(Digits)) + 1]>>

\* str(value)
py_str(v) ==
    IF IsInt(v) THEN IntText(v.int)
    ELSE IF IsBool(v) THEN (IF v.bool THEN <<"T", "r", "u", "e">>
                            ELSE <<"F", "a", "l", "s", "e">>)
    ELSE IF IsStr(v) THEN v.str
    ELSE <<"N", "o", "n", "e">>

IsNumber(text) ==
    text # <<>> /\ \A i \in 1..Len(text) : \E d \in 1..Len(Digits) : Digits[d] = text[i]

DigitValue(c) == (CHOOSE d \in 1..Len(Digits) : Digits[d] = c) - 1

\* int(text) of a text of digits
RECURSIVE ParseInt(_)
ParseInt(text) ==
    IF Len(text) = 1 THEN DigitValue(text[1])
    ELSE ParseInt(SubSeq(text, 1, Len(text) - 1)) * Len(Digits) + DigitValue(text[Len(text)])

\* str.lower(), on the letters of the texts used here
LowerChar(c) ==
    CASE c = "T" -> "t" [] c = "F" -> "f" [] c = "O" -> "o" [] c = "N" -> "n"
      [] OTHER -> c
LowerText(text) == [i \in 1..Len(text) |-> LowerChar(text[i])]

TrueTexts == {<<"1">>, <<"t", "r", "u", "e">>, <<"y", "e", "s">>, <<"o", "n">>}

\* _cast_value
cast_value(value, default) ==
    IF IsBool(default) THEN PyBool(LowerText(value) \in TrueTexts)
    ELSE IF IsInt(default)
    THEN (IF IsNumber(value) THEN PyInt(ParseInt(value)) ELSE default)
    ELSE PyStr(value)

\* str.upper() and str.replace, on the names used here
str_upper(name) ==
    CASE name = "timeout" -> "TIMEOUT"
      [] name = "ping-pong" -> "PING-PONG"
      [] name = "unknown" -> "UNKNOWN"
      [] OTHER -> name
DashToUnderscore(name) == IF name = "PING-PONG" THEN "PING_PONG" ELSE name
UnderscoreToDash(name) == IF name = "ping_pong" THEN "ping-pong" ELSE name

\* module_name.upper().replace("-", "_")
ModuleSlug(module_name) == DashToUnderscore(str_upper(module_name))

\* f"HIT_{module_slug}_{key.upper()}"
ModuleEnvKey(module_slug, env_key) == "HIT_" \o module_slug \o "_" \o env_key

\* key in os.environ
InEnviron(env, key) == key \in DOMAIN env /\ env[key] # Unset

\* os.environ.setdefault(key, text)
EnvSetDefault(env, key, text) == IF InEnviron(env, key) THEN env ELSE DictSet(env, key, text)

\* module_config._get_module_name; SCRIPT is Path(sys.argv[0]).stem
startup_module_name(env) ==
    IF StrTruthy(env.HIT_MODULE_NAME) THEN env.HIT_MODULE_NAME
    ELSE IF StrTruthy(env.MODULE_NAME) THEN env.MODULE_NAME
    ELSE IF StrTruthy(env.SERVICE_NAME) THEN UnderscoreToDash(env.SERVICE_NAME)
    ELSE IF env.SCRIPT # "" THEN env.SCRIPT
    ELSE "unknown"

RECURSIVE InjectEnvBlock(_, _)
InjectEnvBlock(env, block) ==
    IF DOMAIN block = {} THEN env
    ELSE LET key == CHOOSE k \in DOMAIN block : TRUE
         IN  InjectEnvBlock(EnvSetDefault(env, key, py_str(block[key])),
                            [k \in DOMAIN block \ {key} |-> block[k]])

RECURSIVE InjectSettings(_, _, _)
InjectSettings(env, module_slug, settings) ==
    IF DOMAIN settings = {} THEN env
    ELSE LET key == CHOOSE k \in DOMAIN settings : TRUE
         IN  InjectSettings(EnvSetDefault(env, ModuleEnvKey(module_slug, str_upper(key)),
                                          py_str(settings[key])),
                            module_slug, [k \in DOMAIN settings \ {key} |-> settings[k]])

\* _inject_env_vars, for a configuration that is an object whose env and
\* settings, when present, are objects
inject_env_vars(env, module_name, config) ==
    InjectSettings(InjectEnvBlock(env, DictGet(config, "env", EmptyDict)),
                   ModuleSlug(module_name), DictGet(config, "settings", EmptyDict))

\* ClientConfig.headers: the token of the Authorization header
HeaderToken(config) ==
    IF TextTruthy(config.module_token) THEN config.module_token ELSE config.project_token

\* module_config._load_module_config: ProvisionerClient() and its
\* get_module_config(module_name), answered by resp; `config or {}`
startup_load_module_config(env, module_name, resp) ==
    LET client == ProvisionerClient(NoConfig, env, TRUE)
    IN  IF ~Returned(client) \/ BuildUrlFails(client.value)
        THEN [calls |-> <<>>, r |-> Err("ProvisionerConfigError", 0)]
        ELSE [calls |-> <<Call(ConfigEndpoint, HeaderToken(client.value.config),
                               Payload(NoToken, module_name, NoneStr), resp)>>,
              r |-> client_request(resp, 200)]

StartupResult(out, state, env, calls) ==
    [out |-> out, state |-> state, env |-> env, calls |-> calls]

ConfigMissing == "Provisioner configuration missing for module"
Unreachable == "Provisioner is required but unreachable; refusing to start module"

\* ensure_module_config_loaded(force), the provisioner answering resp
ensure_module_config_loaded(state, env, force, resp) ==
    IF state.loaded /\ ~force THEN StartupResult(Return(PyNone), state, env, <<>>)
    ELSE LET module_name == startup_module_name(env)
             loaded == startup_load_module_config(env, module_name, resp)
         IN  IF module_name = "unknown"
             THEN StartupResult(Return(PyNone), [state EXCEPT !.loaded = TRUE], env, <<>>)
             ELSE IF loaded.r.err = "ProvisionerConfigError"
             THEN StartupResult(Raise("RuntimeError", ConfigMissing, loaded.r.err),
                                state, env, loaded.calls)
             ELSE IF loaded.r.err # ""
             THEN StartupResult(Raise("RuntimeError", Unreachable, loaded.r.err),
                                state, env, loaded.calls)
             ELSE IF loaded.r.t = "arr"
             THEN StartupResult(Raise("AttributeError", "object has no attribute get", ""),
                                [state EXCEPT !.cache = DictSet(@, module_name, PyArray)],
                                env, loaded.calls)
             ELSE IF loaded.r.t = "null" \/ loaded.r.value = EmptyDict
             THEN StartupResult(Return(PyNone), [state EXCEPT !.loaded = TRUE], env,
                                loaded.calls)
             ELSE StartupResult(Return(PyNone),
                                [loaded |-> TRUE,
                                 cache |-> DictSet(state.cache, module_name, loaded.r.value)],
                                inject_env_vars(env, module_name, loaded.r.value),
                                loaded.calls)

\* get_config_value(key, default, module_name), the provisioner answering resp
get_config_value(state, env, key, default, module_arg, resp) ==
    LET module_name == IF StrTruthy(module_arg) THEN module_arg ELSE startup_module_name(env)
        env_key == str_upper(key)
        module_slug == ModuleSlug(module_name)
        module_env_key == IF module_slug # "" THEN ModuleEnvKey(module_slug, env_key)
                          ELSE env_key
        ensured == ensure_module_config_loaded(state, env, FALSE, resp)
        config == DictGet(ensured.state.cache, module_name, EmptyDict)
        settings == DictGet(config, "settings", EmptyDict)
    IN  IF InEnviron(env, env_key)
        THEN StartupResult(Return(cast_value(env[env_key], default)), state, env, <<>>)
        ELSE IF InEnviron(env, module_env_key)
        THEN StartupResult(Return(cast_value(env[module_env_key], default)), state, env, <<>>)
        ELSE IF ~Returned(ensured.out) THEN ensured
        ELSE IF IsArray(config)
        THEN [ensured EXCEPT !.out = Raise("AttributeError", "object has no attribute get", "")]
        ELSE IF key \in DOMAIN settings
        THEN [ensured EXCEPT !.out = Return(settings[key])]
        ELSE [ensured EXCEPT !.out = Return(default)]

\* the configurations the provisioner holds for the module
Setting(key, value) == DictSet(EmptyDict, key, value)
StartupConfigs ==
    {DictSet(EmptyDict, "settings", Setting("timeout", v)) :
        v \in {PyInt(5), PyStr(<<"o", "n">>), PyBool(TRUE)}}
    \cup {[env |-> Setting("TIMEOUT", PyInt(30)), settings |-> EmptyDict]}

StartupResponses ==
    {HttpExc, HttpResp(200, "empty", EmptyDict), HttpResp(200, "array", EmptyDict),
     HttpResp(401, "json", EmptyDict)}
    \cup {HttpResp(200, "json", c) : c \in StartupConfigs}

ConfigKeys == {"timeout"}
Defaults == {PyNone, PyInt(0), PyBool(FALSE)}

\* where the process takes its module name from
NameSources ==
    {[HIT_MODULE_NAME |-> "ping-pong", MODULE_NAME |-> NoneStr, SERVICE_NAME |-> NoneStr,
      SCRIPT |-> "uvicorn"],
     [HIT_MODULE_NAME |-> NoneStr, MODULE_NAME |-> NoneStr, SERVICE_NAME |-> "ping_pong",
      SCRIPT |-> "uvicorn"],
     [HIT_MODULE_NAME |-> NoneStr, MODULE_NAME |-> NoneStr, SERVICE_NAME |-> NoneStr,
      SCRIPT |-> ""]}

StartupEnvironments ==
    {names @@ [PROVISIONER_URL |-> u, HIT_MODULE_ID_TOKEN |-> <<"test-token">>,
               HIT_PROJECT_TOKEN |-> Unset, TIMEOUT |-> t] :
        names \in NameSources, u \in {Unset, <<"https://provisioner.dev">>},
        t \in {Unset, <<"9">>}}

StartupArgs(force, key, default) ==
    [module_name |-> NoneStr, method_name |-> NoneStr, force |-> force, key |-> key,
     default |-> default]

\* what a call into module_config was given, did and answered; `before` and
\* `env` are the module state and the environment it found
StartupObservation(op, args, resp, res) ==
    [op |-> op, request |-> NoRequest, args |-> args, resps |-> <<resp>>,
     calls |-> res.calls, out |-> res.out, key |-> "", token |-> NoToken,
     before |-> startup, env |-> environ]

\* ensure_module_config_loaded(force=...)
EnsureModuleConfigLoaded ==
    \E force \in BOOLEAN, resp \in StartupResponses :
        \E res \in {ensure_module_config_loaded(startup, environ, force, resp)} :
            /\ startup' = res.state
            /\ environ' = res.env
            /\ last' = StartupObservation("ensure", StartupArgs(force, "", PyNone), resp, res)
            /\ UNCHANGED <<config_cache, client_cache, inflight, origin, dbvars,
                           provisioner, pool, preclear, auto_events>>

\* get_config_value(key, default)
GetConfigValue ==
    \E key \in ConfigKeys, default \in Defaults, resp \in StartupResponses :
        \E res \in {get_config_value(startup, environ, key, default, NoneStr, resp)} :
            /\ startup' = res.state
            /\ environ' = res.env
            /\ last' = StartupObservation("get_config_value",
                                          StartupArgs(FALSE, key, default), resp, res)
            /\ UNCHANGED <<config_cache, client_cache, inflight, origin, dbvars,
                           provisioner, pool, preclear, auto_events>>

InitStartup ==
    /\ environ \in StartupEnvironments
    /\ config_cache = EmptyDict
    /\ client_cache = FALSE
    /\ inflight = NoRequest
    /\ last = Observation("init", NoRequest, NoArgs, <<>>, Nothing)
    /\ origin = EmptyDict
    /\ NewManager(DefaultManager)
    /\ declared = <<>>
    /\ InitOthers

NextStartup ==
    \/ EnsureModuleConfigLoaded
    \/ GetConfigValue

SpecStartup == InitStartup /\ [][NextStartup]_vars

-----------------------------------------------------------------------------
(* auto_events.py: events queued at flush and published after commit *)

\* The sessions of the process, each named by its id(session); install_auto_events
\* has been called once, for all models or for a list of them. A session's
\* work is a sequence of transactions, numbered from 1, each ended by a
\* commit or a rollback.
Sessions == {"s1", "s2"}
MaxTxn == 2
MaxPending == 2

\* the event of a change that session s flushed in its transaction n
Event(s, n) == [session |-> s, txn |-> n]

\* _queue_event
queue_event(pending, session_id, ev) ==
    DictSet(pending, session_id, Append(DictGet(pending, session_id, <<>>), ev))

\* _pending_events.pop(session_id, []) and del _pending_events[session_id]
PendingPop(pending, session_id) ==
    [k \in DOMAIN pending \ {session_id} |-> pending[k]]

\* _publish_queued_events: the queue of the session is taken and each of its
\* events is handed to publish_event (a failure to publish is logged)
publish_queued_events(ae, session_id) ==
    LET events == DictGet(ae.pending, session_id, <<>>)
    IN  [ae EXCEPT !.pending = PendingPop(@, session_id),
                   !.published = @ \cup {events[i] : i \in 1..Len(events)}]

\* _run_async_publish: with a running event loop the publish is scheduled as
\* a task, without one it runs at once
run_async_publish(ae, session_id, running_loop) ==
    IF running_loop THEN [ae EXCEPT !.tasks = Append(@, session_id)]
    ELSE publish_queued_events(ae, session_id)

\* session.flush() of one change: after_flush queues its event when the
\* table is one that config.should_publish accepts
AfterFlush(s) ==
    \E should_publish \in BOOLEAN :
        /\ auto_events.open[s] <= MaxTxn
        /\ Len(DictGet(auto_events.pending, s, <<>>)) < MaxPending
        /\ auto_events' =
               IF should_publish
               THEN [auto_events EXCEPT
                        !.pending = queue_event(@, s, Event(s, auto_events.open[s]))]
               ELSE auto_events
        /\ last' = [Observation("flush", NoRequest, NoArgs, <<>>, Nothing) EXCEPT !.key = s]
        /\ UNCHANGED <<corevars, dbvars, provisioner, pool, preclear, startup>>

\* session.commit() succeeds: after_commit
AfterCommit(s) ==
    \E running_loop \in BOOLEAN :
        /\ auto_events.open[s] <= MaxTxn
        /\ \E ended \in {[auto_events EXCEPT
                              !.committed = @ \cup {Event(s, auto_events.open[s])},
                              !.open[s] = @ + 1]} :
               auto_events' = IF s \in DOMAIN auto_events.pending
                              THEN run_async_publish(ended, s, running_loop)
                              ELSE ended
        /\ last' = [Observation("commit", NoRequest, NoArgs, <<>>, Nothing) EXCEPT !.key = s]
        /\ UNCHANGED <<corevars, dbvars, provisioner, pool, preclear, startup>>

\* session.rollback(): after_rollback
AfterRollback(s) ==
    /\ auto_events.open[s] <= MaxTxn
    /\ auto_events' = [auto_events EXCEPT
                          !.rolled = @ \cup {Event(s, auto_events.open[s])},
                          !.open[s] = @ + 1,
                          !.pending = PendingPop(@, s)]
    /\ last' = [Observation("rollback", NoRequest, NoArgs, <<>>, Nothing) EXCEPT !.key = s]
    /\ UNCHANGED <<corevars, dbvars, provisioner, pool, preclear, startup>>

\* the event loop runs the oldest publish task
RunPublishTask ==
    /\ auto_events.tasks # <<>>
    /\ auto_events' = publish_queued_events([auto_events EXCEPT !.tasks = Tail(@)],
                                            Head(auto_events.tasks))
    /\ last' = [Observation("publish", NoRequest, NoArgs, <<>>, Nothing)
                   EXCEPT !.key = Head(auto_events.tasks)]
    /\ UNCHANGED <<corevars, dbvars, provisioner, pool, preclear, startup>>

NextEvents ==
    \/ \E s \in Sessions : AfterFlush(s)
    \/ \E s \in Sessions : AfterCommit(s)
    \/ \E s \in Sessions : AfterRollback(s)
    \/ RunPublishTask

SpecEvents == Init /\ [][NextEvents]_vars

-----------------------------------------------------------------------------
(* Properties *)

Resolved == last.op = "resolve"
Gated == last.op \in {"gate", "acl"}

ModuleConfigured == StrTruthy(environ.HIT_MODULE_NAME)

\* the answer of call i of the last operation was a parsed 200 response
CallSucceeded(i) ==
    /\ ~last.calls[i].resp.exc
    /\ last.calls[i].resp.status = 200
    /\ last.calls[i].resp.content # "badjson"

\* the token TokenExtractor selects for a request, and its decoded claims
ExtractedClaims(request) == decode_token_claims(extract_bearer_token(request))

\* the cache key "{module}:{project}:{service}" of decoded claims
KeyOf(claims) ==
    environ.HIT_MODULE_NAME \o ":" \o claims.d["prj"] \o ":" \o claims.d["svc"]

\* C1: a resolution returns a configuration only if, during that resolution,
\* the remote answered successfully a call carrying the request's token.
C1_ConfigOnlyAfterRemoteValidation ==
    (Resolved /\ Returned(last.out)) =>
        \E i \in DOMAIN last.calls :
            last.calls[i].bearer = last.token /\ CallSucceeded(i)

\* C2: a successful resolution leaves an entry for its triple; entries stay
\* as they are until clear_config_cache; a resolution whose triple has an
\* entry succeeds from the cache without any remote call, whatever the remote
\* would answer; clear_config_cache empties the cache, and a resolution on an
\* empty cache succeeds only through a fresh, successful remote fetch.
C2_CacheServesUntilClear ==
    [][ /\ (last'.op = "resolve" /\ Returned(last'.out)) =>
               last'.key \in DOMAIN config_cache'
        /\ last'.op # "clear" =>
               \A k \in DOMAIN config_cache :
                   k \in DOMAIN config_cache' /\ config_cache'[k] = config_cache[k]
        /\ (/\ last'.op = "resolve"
            /\ HasPrjSvc(ExtractedClaims(last'.request))
            /\ KeyOf(ExtractedClaims(last'.request)) \in DOMAIN config_cache) =>
               /\ Returned(last'.out)
               /\ last'.calls = <<>>
               /\ config_cache' = config_cache
               /\ \A k \in DOMAIN config_cache[KeyOf(ExtractedClaims(last'.request))] :
                      last'.out.value[k] =
                          config_cache[KeyOf(ExtractedClaims(last'.request))][k]
        /\ last'.op = "clear" => config_cache' = EmptyDict
        /\ (last'.op = "resolve" /\ Returned(last'.out) /\ config_cache = EmptyDict) =>
               /\ last'.calls # <<>>
               /\ last'.calls[Len(last'.calls)].endpoint = ConfigEndpoint
               /\ config_cache'[last'.key] = last'.calls[Len(last'.calls)].resp.body
      ]_vars

\* C2 witness: a resolution served from the cache while the remote was set to fail
C2_Witness ==
    /\ Resolved /\ Returned(last.out) /\ last.calls = <<>>
    /\ last.resps[1] = HttpExc
    /\ last.key \in DOMAIN config_cache

\* C3: in both gates a transport failure of the validation call yields 503,
\* and 401 "invalid token" only follows a remote 401 or a result without
\* claims / with valid = false.
C3_TransportFailureIs503 ==
    (Gated /\ last.calls # <<>>) =>
        /\ last.calls[1].resp.exc => (~Returned(last.out) /\ last.out.status = 503)
        /\ (~Returned(last.out) /\ last.out.status = 401) =>
               \/ last.calls[1].resp.status = 401
               \/ /\ CallSucceeded(1)
                  /\ \/ DictGet(client_request(last.calls[1].resp, 200).value,
                                "claims", EmptyDict) = EmptyDict
                     \/ ~DictGet(client_request(last.calls[1].resp, 200).value,
                                 "valid", TRUE)

\* C4: a resolution for a request whose extracted token carries prj and svc,
\* all of whose module-config calls met a transport failure, ends with the
\* provisioner-failure error (RuntimeError chained from ProvisionerRequestError),
\* never with an HTTP 401/403 rejection.
C4_UnreachableIsUnavailable ==
    (/\ Resolved
     /\ HasPrjSvc(ExtractedClaims(last.request))
     /\ last.calls # <<>>
     /\ \A i \in DOMAIN last.calls : last.calls[i].resp.exc) =>
        /\ ~Returned(last.out)
        /\ last.out.exc = "RuntimeError"
        /\ last.out.cause = "ProvisionerRequestError"

MissingTokenOutcome(out) ==
    /\ ~Returned(out) /\ out.status = 401
    /\ out.detail \in {"Missing Authorization header", "Missing bearer token"}

\* C5: the gate of /hit/config fails with MissingToken exactly when
\* TokenExtractor yields no token, the token it sends to the remote is the one
\* TokenExtractor selects, and it is the token the configuration is loaded with.
C5_GateVerifiesExtractedToken ==
    last.op = "hit_config" =>
        /\ MissingTokenOutcome(last.out) <=>
               ~TokenTruthy(extract_bearer_token(last.request))
        /\ \A i \in DOMAIN last.calls :
               last.calls[i].endpoint = ValidateEndpoint =>
                   last.calls[i].payload.token = extract_bearer_token(last.request)
        /\ Returned(last.out) =>
               \A i, j \in DOMAIN last.calls :
                   (/\ last.calls[i].endpoint = ValidateEndpoint
                    /\ last.calls[j].endpoint = ConfigEndpoint) =>
                       last.calls[i].payload.token = last.calls[j].bearer

\* the verification result the ACL gate evaluated, when it got one
AclEvaluated == last.op = "acl" /\ last.calls # <<>> /\ CallSucceeded(1)
AclResult == client_request(last.calls[1].resp, 200).value
Flag(result, k) ==
    IF k \notin DOMAIN result THEN "absent" ELSE IF result[k] THEN "true" ELSE "false"
MethodInEffect == last.calls[1].payload.methodName # NoneStr
MethodDenial == MethodInEffect /\ Flag(AclResult, "method_allowed") = "false"

\* C6: the ACL gate evaluates a result in the order valid absent -> 503,
\* valid false -> 401, module_allowed false -> 403, method in effect and
\* method_allowed false -> 403, otherwise the claims are returned; so claims
\* are returned only when valid is true, module_allowed is not false and no
\* method denial applies, and an invalid token never gets a 403.
C6_AclOrder ==
    AclEvaluated =>
        /\ Flag(AclResult, "valid") = "absent" =>
               (~Returned(last.out) /\ last.out.status = 503)
        /\ Flag(AclResult, "valid") = "false" =>
               (~Returned(last.out) /\ last.out.status = 401)
        /\ (Flag(AclResult, "valid") = "true"
            /\ Flag(AclResult, "module_allowed") = "false") =>
               (~Returned(last.out) /\ last.out.status = 403)
        /\ (Flag(AclResult, "valid") = "true"
            /\ Flag(AclResult, "module_allowed") # "false" /\ MethodDenial) =>
               (~Returned(last.out) /\ last.out.status = 403)
        /\ (Flag(AclResult, "valid") = "true"
            /\ Flag(AclResult, "module_allowed") # "false" /\ ~MethodDenial) =>
               (Returned(last.out)
                /\ last.out.value = DictGet(AclResult, "claims", EmptyDict))
        /\ Returned(last.out) =>
               /\ Flag(AclResult, "valid") = "true"
               /\ Flag(AclResult, "module_allowed") # "false"
               /\ ~MethodDenial
        /\ Flag(AclResult, "valid") # "true" =>
               (~Returned(last.out) /\ last.out.status # 403)

\* C6 witness: claims returned with module_allowed absent and a method in
\* effect whose method_allowed is not false
C6_Witness ==
    /\ AclEvaluated /\ Returned(last.out) /\ MethodInEffect
    /\ Flag(AclResult, "module_allowed") = "absent"
    /\ last.out.value = ClaimsA

\* C7: a result with valid true and module_allowed false fails with 403 whose
\* detail is the result's reason, whatever method_allowed and the method name
\* are; a method denial carries the result's reason as well.
C7_DenialCarriesReason ==
    (AclEvaluated /\ Flag(AclResult, "valid") = "true" /\ "reason" \in DOMAIN AclResult) =>
        /\ Flag(AclResult, "module_allowed") = "false" =>
               /\ ~Returned(last.out) /\ last.out.status = 403
               /\ last.out.detail = AclResult["reason"]
        /\ (Flag(AclResult, "module_allowed") # "false" /\ MethodDenial) =>
               /\ ~Returned(last.out) /\ last.out.status = 403
               /\ last.out.detail = AclResult["reason"]

\* C7 witness: a module denial with method_allowed true and an explicit method name
C7_Witness ==
    /\ AclEvaluated /\ last.out.status = 403 /\ last.out.detail = "not permitted"
    /\ Flag(AclResult, "module_allowed") = "false"
    /\ Flag(AclResult, "method_allowed") = "true"
    /\ last.args.method_name = "get_count"

\* C8: a gate (plain or method-ACL) that lets a request through returns the
\* non-empty claims of the verification result.
C8_SuccessYieldsClaims ==
    (Gated /\ Returned(last.out)) =>
        /\ last.out.value # EmptyDict
        /\ last.out.value = DictGet(client_request(last.calls[1].resp, 200).value,
                                    "claims", EmptyDict)

\* C9: when the X-HIT-Service-Token token decodes to a mapping without prj or
\* svc, the resolution is rejected (the invalid-service-token error, or the
\* HTTP 403 it surfaces as) without any remote call and without a
\* configuration: the Authorization header's token is not tried.
C9_NoFallbackFromServiceToken ==
    (/\ Resolved /\ ModuleConfigured
     /\ TokenTruthy(last.request.xhit)
     /\ decode_token_claims(last.request.xhit).t = "obj"
     /\ ~HasPrjSvc(decode_token_claims(last.request.xhit))) =>
        /\ ~Returned(last.out)
        /\ \/ /\ last.out.exc = "RuntimeError"
              /\ last.out.detail \in {"Invalid service token", "Invalid service token format"}
           \/ last.out.status = 403
        /\ last.calls = <<>>
        /\ last.token = NoToken

\* C10: a successful resolution used a token whose decoded claims hold a
\* non-empty prj and svc, which are the returned _project_slug/_service_name
\* and the cache key; the Authorization token is used instead of the extracted
\* one only if it holds both; with no such token the resolution fails with 403.
C10_ResolutionUsesPrjSvc ==
    (Resolved /\ ModuleConfigured) =>
        /\ Returned(last.out) =>
               /\ HasPrjSvc(decode_token_claims(last.token))
               /\ last.out.value["_project_slug"] = decode_token_claims(last.token).d["prj"]
               /\ last.out.value["_service_name"] = decode_token_claims(last.token).d["svc"]
               /\ last.key = KeyOf(decode_token_claims(last.token))
               /\ last.token # extract_bearer_token(last.request) =>
                      /\ StartsWithBearer(last.request.auth)
                      /\ last.token = last.request.auth.param
        /\ (/\ ~HasPrjSvc(ExtractedClaims(last.request))
            /\ ~(StartsWithBearer(last.request.auth)
                 /\ HasPrjSvc(decode_token_claims(last.request.auth.param)))) =>
               (~Returned(last.out) /\ last.out.status = 403)

AugmentationKeys == {"_request_token", "_project_slug", "_service_name"}

\* C11: every configuration a resolution returns, on a hit and on a miss
\* alike, carries as _request_token the token of the request being resolved
\* (a token that request presented), and no cache entry holds any of the keys
\* a resolution adds.
C11_RequestTokenIsFresh ==
    /\ (Resolved /\ Returned(last.out)) =>
           /\ TokenTruthy(last.token)
           /\ last.token \in {last.request.xhit, last.request.auth.param}
           /\ DictGet(last.out.value, "_request_token", NoToken) = last.token
    /\ \A k \in DOMAIN config_cache : DOMAIN config_cache[k] \cap AugmentationKeys = {}

\* C11 witness: a cache hit for a token other than the one the entry was
\* fetched with, answered with the hitting request's own token
C11_Witness ==
    /\ Resolved /\ Returned(last.out) /\ last.calls = <<>>
    /\ origin[last.key].token # last.token
    /\ last.out.value["_request_token"] = last.token

\* C12: a configuration returned by a resolution (with or without a request)
\* was fetched for that resolution's own (module, project, service) triple: the
\* cache entry it was served from was stored by a resolution for the same
\* project and service, absent or present.
C12_CacheIsolatesTenants ==
    (last.op \in {"resolve", "startup"} /\ Returned(last.out)) =>
        /\ origin[last.key].project = ProjectOf(last.token)
        /\ origin[last.key].service = ServiceOf(last.token)

\* C13: a resolution that fails leaves the cache as it found it, and the
\* cache changes only by the entry for the resolution's key being set to the
\* body of a module-config response that was received with status 200 and
\* parsed.
C13_FailureLeavesCache ==
    Resolved =>
        /\ ~Returned(last.out) => config_cache = last.before
        /\ config_cache # last.before =>
               /\ last.calls # <<>>
               /\ CallSucceeded(Len(last.calls))
               /\ last.calls[Len(last.calls)].resp.content \in {"json", "empty"}
               /\ config_cache =
                      DictSet(last.before, last.key,
                              client_request(last.calls[Len(last.calls)].resp, 200).value)

\* C13 witness: a fetch answered with an unparsable body failed and left a
\* non-empty cache as it was
C13_Witness ==
    /\ Resolved /\ ~Returned(last.out) /\ last.calls # <<>>
    /\ last.calls[Len(last.calls)].resp.content = "badjson"
    /\ last.before # EmptyDict /\ config_cache = last.before

\* C14: one resolution makes at most one module-config call.
C14_AtMostOneFetch ==
    Resolved => Len(last.calls) <= 1

\* the plain gate lets the last request through
GatePassed ==
    Returned(require_provisioned_token(last.request, environ, FALSE, last.resps[1]).out)

\* C15: clear_config_cache leaves the cache empty whatever entries it held;
\* the reload route, once its gate has passed, leaves nothing in the cache but
\* what its own fetch stored; a resolution that finds the cache empty returns
\* a configuration only through a successful module-config call.
C15_ClearEmptiesCache ==
    /\ last.op = "clear" => config_cache = EmptyDict
    /\ (last.op = "hit_reload" /\ GatePassed) =>
           \A k \in DOMAIN config_cache :
               /\ k = last.key
               /\ last.calls[Len(last.calls)].endpoint = ConfigEndpoint
               /\ CallSucceeded(Len(last.calls))
               /\ config_cache[k] = client_request(last.calls[Len(last.calls)].resp, 200).value
    /\ (last.op \in {"hit_config", "hit_reload"} /\ Returned(last.out)
        /\ (last.before = EmptyDict \/ last.op = "hit_reload")) =>
           /\ last.calls[Len(last.calls)].endpoint = ConfigEndpoint
           /\ CallSucceeded(Len(last.calls))

\* C15 witness: a clear that found entries for two triples
C15_Witness ==
    /\ last.op = "clear" /\ config_cache = EmptyDict
    /\ Cardinality(DOMAIN last.before) = 2

\* the last module-config call of the last resolution was answered with an
\* empty or absent configuration: {}, no body, or null
EmptyConfigAnswer ==
    /\ last.calls # <<>>
    /\ ~last.calls[Len(last.calls)].resp.exc
    /\ last.calls[Len(last.calls)].resp.status = 200
    /\ \/ last.calls[Len(last.calls)].resp.content \in {"empty", "null"}
       \/ /\ last.calls[Len(last.calls)].resp.content = "json"
          /\ last.calls[Len(last.calls)].resp.body = EmptyDict

\* C16: a resolution whose fetch is answered with an empty or absent
\* configuration succeeds, returns only the augmentation keys and caches the
\* empty configuration; a resolution that finds an empty configuration cached
\* for its triple is a hit without a remote call.
C16_EmptyConfigIsValid ==
    Resolved =>
        /\ EmptyConfigAnswer =>
               /\ Returned(last.out)
               /\ DOMAIN last.out.value \subseteq AugmentationKeys
               /\ last.key \in DOMAIN config_cache
               /\ config_cache[last.key] = EmptyDict
        /\ (/\ HasPrjSvc(ExtractedClaims(last.request))
            /\ KeyOf(ExtractedClaims(last.request)) \in DOMAIN last.before
            /\ last.before[KeyOf(ExtractedClaims(last.request))] = EmptyDict) =>
               /\ Returned(last.out)
               /\ last.calls = <<>>
               /\ DOMAIN last.out.value \subseteq AugmentationKeys


\* C17: of two consecutive get_engine calls with identical arguments, the
\* first of which returned, the second returns the identical engine and makes
\* no remote call; the two make at most one database-secret call together.
C17_SameCallSameEngine ==
    [][ (/\ last.op = "get_engine" /\ Returned(last.out)
         /\ last'.op = "get_engine" /\ last'.args = last.args) =>
            /\ Returned(last'.out)
            /\ last'.out.value = last.out.value
            /\ last'.calls = <<>>
            /\ Len(last.calls) <= 1
            /\ \A i \in DOMAIN last.calls : last.calls[i].endpoint = SecretEndpoint
      ]_vars

\* C17 witness: a get_engine call with (namespace, secret_key, role) only,
\* answered from the registry without a remote call
C17_Witness ==
    /\ last.op = "get_engine" /\ Returned(last.out) /\ last.calls = <<>>
    /\ last.args.engine_key = NoneStr
    /\ engines[last.key] = last.out.value

\* C18: under concurrent get_engine and dispose calls, two calls with the
\* same engine key never return different engines (while neither has been
\* disposed), and every engine created is in the registry or was disposed.
C18_OneEnginePerKey ==
    /\ \A r1, r2 \in ledger.returned :
           (r1[1] = r2[1] /\ r1[2] \notin ledger.disposed /\ r2[2] \notin ledger.disposed) =>
               r1[2] = r2[2]
    /\ \A id \in ledger.created : id \in EngineIds(engines) \/ id \in ledger.disposed

\* C19: get_database_url returns a non-empty URL taken from the field url or
\* DATABASE_URL of the secret the remote answered with, or else raises
\* DatabaseConnectionError, whatever the remote answers and whether or not the
\* client is configured.
C19_UrlOrDatabaseConnectionError ==
    last.op = "get_database_url" =>
        \/ /\ Returned(last.out)
           /\ last.out.value # <<>>
           /\ last.calls # <<>> /\ CallSucceeded(1)
           /\ last.out.value \in {DictGet(last.calls[1].resp.body, "url", <<>>),
                                  DictGet(last.calls[1].resp.body, "DATABASE_URL", <<>>)}
        \/ /\ ~Returned(last.out)
           /\ last.out.exc = "DatabaseConnectionError"

\* C20: on a configured client every get_database_url call makes exactly one
\* database-secret call, for its own arguments, and a URL it returns is the
\* URL of that call's answer, whatever was answered or memoized before.
C20_NoUrlCaching ==
    (last.op = "get_database_url" /\ ~BaseUrlMissing(manager)) =>
        /\ Len(last.calls) = 1
        /\ last.calls[1].endpoint = SecretEndpoint
        /\ last.calls[1].payload = SecretPayload(last.args)
        /\ Returned(last.out) =>
               /\ CallSucceeded(1)
               /\ last.out.value = SecretUrl(client_request(last.calls[1].resp, 200).value)

\* C20 witness: a call returns the URL the remote answers now, while the
\* registry holds an engine built for the same arguments from another URL
C20_Witness ==
    /\ last.op = "get_database_url" /\ Returned(last.out)
    /\ last.out.value = UrlB
    /\ EngineKey(last.args) \in DOMAIN engines
    /\ engines[EngineKey(last.args)].url[2] = "db-a"

\* C21: dispose calls dispose() on every engine of the registry, whichever of
\* them fail, returns and leaves the registry empty; on an empty registry it
\* changes nothing; a get_engine that follows a dispose and returns makes one
\* database-secret call and returns an engine created by that call.
C21_DisposeReleasesAll ==
    [][ /\ last'.op = "dispose" =>
               /\ Returned(last'.out)
               /\ engines' = EmptyDict
               /\ EngineIds(engines) \subseteq ledger'.disposed
               /\ engines = EmptyDict => ledger' = ledger
        /\ (last.op = "dispose" /\ last'.op = "get_engine" /\ Returned(last'.out)) =>
               /\ Len(last'.calls) = 1
               /\ last'.calls[1].endpoint = SecretEndpoint
               /\ CallSucceeded(1)'
               /\ last'.out.value.id \notin ledger.created
               /\ last'.out.value.url =
                      NormalizeDriver(SecretUrl(last'.calls[1].resp.body), manager.psycopg)
      ]_vars

\* C21 witness: a dispose of two engines, the dispose() of one of which
\* raised, returned and left the registry empty with both disposed
C21_Witness ==
    /\ last.op = "dispose" /\ Returned(last.out)
    /\ Cardinality(ledger.created) = 2
    /\ ledger.created \subseteq ledger.disposed
    /\ Cardinality(last.resps[1]) = 1
    /\ engines = EmptyDict


\* the declarations the selection rule is stated for: every role declares its
\* env and every database its namespace and database name
Declared(databases) ==
    \A i \in DOMAIN databases :
        /\ StrTruthy(databases[i].namespace) /\ StrTruthy(databases[i].database)
        /\ \A j \in DOMAIN databases[i].roles : StrTruthy(databases[i].roles[j].env)

\* role j of database i lists the service, is primary and has the requested env
Matching(i, j) ==
    /\ last.args.service_name \in last.args.databases[i].roles[j].services
    /\ last.args.databases[i].roles[j].primary = TRUE
    /\ last.args.databases[i].roles[j].env = last.args.env_key

\* role j of database i is declared before role l of database k
Earlier(i, j, k, l) == i < k \/ (i = k /\ j < l)

RolePositions ==
    {p \in (DOMAIN last.args.databases) \X (1..2) :
        p[2] \in DOMAIN last.args.databases[p[1]].roles}

Presented(token) == IF TokenTruthy(token) THEN token ELSE NoToken

\* C23: TokenExtractor returns the X-HIT-Service-Token value when that header
\* is present, whatever Authorization holds; otherwise the Authorization value
\* after its "Bearer " prefix when it starts with it; otherwise nothing. (An
\* empty value and no value are not told apart.)
C23_ExtractorPrecedence ==
    last.op = "extract" =>
        /\ Returned(last.out)
        /\ Presented(last.out.value) =
               IF last.request.xhit # NoToken THEN Presented(last.request.xhit)
               ELSE IF last.request.auth.present /\ last.request.auth.scheme = "Bearer"
               THEN Presented(last.request.auth.param)
               ELSE NoToken

\* the segment is the base64url encoding of a JSON text, whatever "=" follow
\* it: all its characters are of the alphabet and encode the whole text
B64UrlJson(chars) ==
    /\ chars.stray = 0
    /\ chars.data = B64Len(chars.text.len)
    /\ chars.text.json # NotJson

\* C24: ClaimsDecoder returns, and returns null for every token that has not
\* three segments and for every three-segment token whose middle segment is
\* not base64url-encoded JSON.
C24_MalformedYieldsNull ==
    last.op = "decode" =>
        /\ Returned(last.out)
        /\ Len(last.token) # 3 => last.out.value = NotJson
        /\ (Len(last.token) = 3 /\ ~B64UrlJson(last.token[2])) => last.out.value = NotJson

\* C25: what ClaimsDecoder returns is null or a JSON object.
C25_ClaimsAreMapping ==
    last.op = "decode" => (last.out.value = NotJson \/ last.out.value.t = "obj")

\* C26: a token whose middle segment is the base64url encoding of a JSON
\* object, with or without its "=" padding, decodes to that object, whatever
\* its first and third segments are.
C26_RoundTrip ==
    (last.op = "decode" /\ Len(last.token) = 3) =>
        \A text \in Texts :
            (/\ text.json.t = "obj"
             /\ last.token[2] \in {urlsafe_b64encode(text), Unpadded(text)}) =>
                last.out.value = text.json

\* C26 witness: a payload of 28 bytes sent without its two "=", under a
\* signature that is not the issuer's, decoded to its prj and svc
C26_Witness ==
    /\ last.op = "decode"
    /\ last.token = <<"h", Chars(TextAcmeTasks, 38, 0, 0), "forged">>
    /\ last.out.value.d = [prj |-> "acme", svc |-> "tasks"]


\* the last segment of a path that is not empty, NoneStr when it has none
RECURSIVE LastNonEmptySegment(_)
LastNonEmptySegment(path) ==
    IF path = <<>> THEN NoneStr
    ELSE IF path[Len(path)] \notin {"/", ""} THEN path[Len(path)]
    ELSE LastNonEmptySegment(SubSeq(path, 1, Len(path) - 1))

\* the method name of the last ACL check: the one given to require_method_acl,
\* else the one the request path gives
MethodExpected ==
    IF StrTruthy(last.args.method_name) THEN last.args.method_name
    ELSE LastNonEmptySegment(last.request.path)

Blank(text) == text = Unset \/ \A i \in 1..Len(text) : text[i] = " "

\* `value` is the text of the variable without the blanks around it, or None
\* when nothing else is in it
EnvValue(text, value) ==
    IF Blank(text) THEN value = Unset
    ELSE /\ value # <<>> /\ value[1] # " " /\ value[Len(value)] # " "
         /\ \E i, j \in 1..Len(text) :
                /\ value = SubSeq(text, i, j)
                /\ \A k \in (1..Len(text)) \ (i..j) : text[k] = " "

\* the environment from_env rejects for this require_token
EnvRejected(require_token) ==
    \/ Blank(environ.PROVISIONER_URL)
    \/ /\ require_token
       /\ Blank(environ.HIT_MODULE_ID_TOKEN) /\ Blank(environ.HIT_PROJECT_TOKEN)

ConfigError(out) == ~Returned(out) /\ out.exc = "ProvisionerConfigError"

\* C28: from_env raises ProvisionerConfigError when PROVISIONER_URL is unset or
\* blank, and when a token is required and neither token variable is set;
\* otherwise it returns the environment's values. The construction of a
\* ProvisionerClient from the environment fails in the same cases, and a
\* client that is constructed has a base URL.
C28_ConfigOrError ==
    /\ last.op = "from_env" =>
          IF EnvRejected(last.args.require_token) THEN ConfigError(last.out)
          ELSE /\ Returned(last.out)
               /\ EnvValue(environ.PROVISIONER_URL, last.out.value.base_url)
               /\ EnvValue(environ.HIT_MODULE_ID_TOKEN, last.out.value.module_token)
               /\ EnvValue(environ.HIT_PROJECT_TOKEN, last.out.value.project_token)
    /\ last.op = "client" =>
          /\ (last.args.config = NoConfig /\ EnvRejected(last.args.require_token)) =>
                 ConfigError(last.out)
          /\ Returned(last.out) => ~BuildUrlFails(last.out.value)


\* the last operation is a database-secret lookup whose caller was let in
SecretLookup ==
    /\ last.op = "secret"
    /\ \/ last.args.credentials = "valid"
       \/ last.args.credentials = "none" /\ provisioner.allow_anonymous

LookupKey == IF last.args.body.secretKey = NoneStr THEN "auth-db" ELSE last.args.body.secretKey

\* the secrets file has an entry for the namespace and key looked up
HasStored ==
    /\ last.args.body.namespace \in DOMAIN provisioner.data
    /\ provisioner.data[last.args.body.namespace].t = "obj"
    /\ "database" \in DOMAIN provisioner.data[last.args.body.namespace].d
    /\ LookupKey \in DOMAIN provisioner.data[last.args.body.namespace].d.database

Stored == provisioner.data[last.args.body.namespace].d.database[LookupKey]

\* C29: a lookup is answered with the stored entry when the store has one,
\* otherwise with the default database URL echoing namespace, key and role,
\* and with 404 only when neither exists.
C29_StoredThenDefaultThen404 ==
    SecretLookup =>
        IF HasStored
        THEN /\ Returned(last.out)
             /\ Stored.t = "obj" =>
                    \A f \in DOMAIN Stored.d :
                        f \in DOMAIN last.out.value.d /\ last.out.value.d[f] = Stored.d[f]
        ELSE IF StrTruthy(provisioner.default_db_url)
        THEN /\ Returned(last.out)
             /\ last.out.value.d =
                    [url |-> provisioner.default_db_url,
                     namespace |-> last.args.body.namespace, key |-> LookupKey,
                     role |-> last.args.body.role]
        ELSE ~Returned(last.out) /\ last.out.status = 404


\* the last operation is a resolution answered from the cache
ServedFromCache ==
    /\ last.op \in {"resolve", "startup", "pool"}
    /\ Returned(last.out) /\ last.calls = <<>>
    /\ last.key \in DOMAIN config_cache

\* C30: a resolution that starts after clear_config_cache() has returned is
\* never answered with a configuration whose fetch began before that clear.
C30_NoPreClearConfig == ServedFromCache => last.key \notin preclear


\* the last operation is a load that fetched its configuration and returned
Fetched ==
    /\ last.op = "load" /\ last.calls # <<>> /\ Returned(last.out)

\* the configuration the remote answered the last load with
FetchedConfig == IF last.calls[1].resp.content = "empty" THEN EmptyDict
                 ELSE last.calls[1].resp.body

\* C31: a load that misses completes with the configuration of its own remote
\* call augmented with its own token, whatever another load of the same key
\* stored meanwhile, and the cache then holds that configuration under the key.
C31_LastWriterWins ==
    Fetched =>
        /\ Len(last.calls) = 1 /\ last.calls[1].bearer = last.token
        /\ last.out.value = Augment(FetchedConfig, ProjectOf(last.token),
                                    ServiceOf(last.token), last.token)
        /\ last.key \in DOMAIN config_cache
        /\ config_cache[last.key] = FetchedConfig

\* C31 witness: the load returns after another load of the same key stored
\* another configuration during its fetch
C31_Witness ==
    /\ Fetched
    /\ last.key \in DOMAIN last.before
    /\ last.before[last.key] = CfgA /\ FetchedConfig = CfgB
    /\ last.token = TokenA
    /\ last.out.value = Augment(CfgB, "acme", "billing", TokenA)
    /\ config_cache[last.key] = CfgB

\* the token get_service_token gives for the last request, on a first call
ServiceToken == get_service_token(last.request, NoToken)

\* C32: within one request get_service_token returns the same token on every
\* call, and every provisioner call of the request's resolution carries it.
C32_OneTokenPerRequest ==
    Resolved =>
        /\ Returned(ServiceToken.out) =>
               /\ get_service_token(last.request, ServiceToken.state).out = ServiceToken.out
               /\ \A i \in DOMAIN last.calls :
                      last.calls[i].bearer = ServiceToken.out.value
        /\ \A i, j \in DOMAIN last.calls : last.calls[i].bearer = last.calls[j].bearer

\* the token TokenExtractor selects for the last request
Extracted == extract_bearer_token(last.request)

\* C33: a resolution whose extracted token does not decode to a mapping with
\* prj and svc takes the fallback or ends in a defined rejection (HTTP 403,
\* or the invalid-service-token RuntimeError): decoding the claims never ends
\* the resolution in another exception.
C33_MalformedClaimsRejected ==
    (/\ Resolved /\ ModuleConfigured
     /\ TokenTruthy(Extracted)
     /\ ~HasPrjSvc(decode_token_claims(Extracted))
     /\ ~Returned(last.out) /\ last.calls = <<>>) =>
        last.out.exc \in {"HTTPException", "RuntimeError"}


Attempt == last.calls[1].resp

RaisedWith(cls) == ~Returned(last.out) /\ last.out.exc = cls

\* C34: one HTTP attempt is mapped to exactly one result: a transport failure
\* to ProvisionerRequestError; the expected status to the parsed body ({} for
\* an empty body, ProvisionerRequestError for invalid JSON); otherwise 401 to
\* ProvisionerAuthError, 404 to SecretNotFoundError and any other status to
\* ProvisionerRequestError with that status; and one request is sent.
C34_RequestOutcomes ==
    last.op = "request" =>
        /\ Len(last.calls) = 1
        /\ IF Attempt.exc THEN RaisedWith("ProvisionerRequestError")
           ELSE IF Attempt.status = last.args.expected_status
           THEN CASE Attempt.content = "empty" ->
                         Returned(last.out) /\ last.out.value = [t |-> "obj", value |-> EmptyDict]
                  [] Attempt.content = "badjson" -> RaisedWith("ProvisionerRequestError")
                  [] Attempt.content = "json" ->
                         Returned(last.out) /\ last.out.value = [t |-> "obj", value |-> Attempt.body]
                  [] OTHER -> Returned(last.out) /\ last.out.value.t \in {"null", "arr"}
           ELSE IF Attempt.status = 401
           THEN RaisedWith("ProvisionerAuthError") /\ last.out.status = 401
           ELSE IF Attempt.status = 404
           THEN RaisedWith("SecretNotFoundError") /\ last.out.status = 404
           ELSE RaisedWith("ProvisionerRequestError") /\ last.out.status = Attempt.status

\* C34 witness: a 401 where 200 was expected raised ProvisionerAuthError
C34_Witness ==
    /\ last.op = "request" /\ last.args.expected_status = 200
    /\ ~Attempt.exc /\ Attempt.status = 401
    /\ RaisedWith("ProvisionerAuthError")


\* C35: a get_engine call that fails leaves the registry as it was, and a
\* get_engine call for the same key that follows it looks the URL up again
\* at the remote (when the manager's client can send the call).
C35_FailureLeavesRegistry ==
    [][/\ (last'.op = "get_engine" /\ ~Returned(last'.out)) =>
              /\ engines' = engines
              /\ manager.sqlalchemy => last'.key \notin DOMAIN engines'
       /\ (/\ last.op = "get_engine" /\ ~Returned(last.out)
           /\ last'.op = "get_engine" /\ last'.key = last.key
           /\ manager.sqlalchemy /\ ~BaseUrlMissing(manager)) =>
              /\ Len(last'.calls) = 1
              /\ last'.calls[1].endpoint = SecretEndpoint]_vars

\* C35 witness: the engine could not be constructed for the URL the remote
\* gave, and the registry, which holds another engine, has no entry for the key
C35_Witness ==
    /\ last.op = "get_engine" /\ ~Returned(last.out)
    /\ last.out.exc = "ArgumentError" /\ last.calls # <<>>
    /\ engines # EmptyDict /\ last.key \notin DOMAIN engines

\* C36: two get_engine calls whose (namespace, secret_key, role) are different
\* lookups at the remote are never given the same engine.
C36_EngineOfItsTriple ==
    [][(/\ last.op = "get_engine" /\ Returned(last.out)
        /\ last'.op = "get_engine" /\ Returned(last'.out)
        /\ SecretPayload(last.args) # SecretPayload(last'.args)) =>
           last'.out.value.id # last.out.value.id]_vars

\* database i of the declaration has a namespace and a database name
Complete(i) ==
    /\ StrTruthy(last.args.databases[i].namespace)
    /\ StrTruthy(last.args.databases[i].database)

\* C37: when some role matches the selection criteria and its database has a
\* namespace and a database name, get_service_database_url does not fail with
\* the no-mapping error.
C37_MatchingRoleResolves ==
    (/\ last.op = "service_url"
     /\ \E p \in RolePositions : Matching(p[1], p[2]) /\ Complete(p[1])) =>
        ~(~Returned(last.out) /\ last.out.detail = "No primary database mapping found")

\* a call of ensure_module_config_loaded in a process that knows its module name
Ensured == last.op = "ensure" /\ startup_module_name(last.env) # "unknown"

\* C38: after a successful load a call without force sends nothing; a call
\* that raises its RuntimeError leaves the loaded flag false and the startup cache as it was;
\* a call with force that returns has fetched again; and no call returns
\* when the provisioner could not be reached.
C38_OneShotLoad ==
    Ensured =>
        /\ (last.before.loaded /\ ~last.args.force) =>
               (Returned(last.out) /\ last.calls = <<>>)
        /\ RaisedWith("RuntimeError") =>
               (~startup.loaded /\ startup.cache = last.before.cache)
        /\ (last.args.force /\ Returned(last.out)) => Len(last.calls) = 1
        /\ (last.calls # <<>> /\ last.calls[1].resp.exc) => ~Returned(last.out)

\* C39: two get_config_value calls in a row for the same key and default,
\* the provisioner holding the same answer for both, return the same value.
C39_StableValue ==
    [][(/\ last.op = "get_config_value" /\ last'.op = "get_config_value"
        /\ last'.args = last.args /\ last'.resps = last.resps
        /\ Returned(last.out) /\ Returned(last'.out)) =>
           last'.out.value = last.out.value]_vars

\* C40: every event handed to the publisher belongs to a transaction that
\* its session has committed, and to none that was rolled back.
C40_PublishedAfterCommit ==
    \A ev \in auto_events.published :
        ev \in auto_events.committed /\ ev \notin auto_events.rolled

====
